---- MODULE Spec2Model ----
(***************************************************************************)
(* A model of wfexs_backend/workflow.py (class WF): the repository cache   *)
(* (doMaterializeRepo), the input cache and the input walk                 *)
(* (downloadInputFile, fetchInputs), and the registry / RO-Crate resolver  *)
(* (getWorkflowRepoFromTRS, getWorkflowRepoFromROCrate).                   *)
(*                                                                         *)
(* Python strings are modelled as TLA+ strings when they are only compared *)
(* and as sequences of tokens when the code takes them apart or builds     *)
(* them (file names, URL paths).  Python's None is the value None below.   *)
(***************************************************************************)
EXTENDS Integers, Sequences, FiniteSets, TLC

VARIABLES
    wfCache,        \* cacheDir/wf-cache: [dirs: first-level directories, slots: slot path -> HEAD]
    repoLog,        \* the last two doMaterializeRepo calls, oldest first
    inputCache,     \* cacheDir/wf-inputs: cached file name -> "complete" | "partial"
    schemeHandlers, \* self.schemeHandlers: the schemes that have a handler
    handlerCalls,   \* per URI, the scheme handler invocations made by direct downloadInputFile calls
    fetchLog,       \* the last downloadInputFile call made directly, if any
    run,            \* the WF instance under observation: its params, its inputs directory, its walk
    roCrateCache,   \* cacheDir/ro-crate-cache: cached file name -> "complete" | "partial"
    ask,            \* one resolution: the reference, and what the registry and the network answer
    resolved,       \* what that resolution gave
    fs,             \* the directories that exist, each one the tuple of its path components
    wf,             \* a WF instance: its constructor arguments, its directories, its workflow
    runs,           \* two runs that share workDir and the caches, each at a point of its staging
    cloning,        \* two doMaterializeRepo calls in progress, each at a point of its code
    docker          \* the docker images at hand and a materializeContainers call in progress

None == "<None>"

(***************************************************************************)
(* hashlib.sha1(s.encode('utf-8')).hexdigest(): a digest, modelled as an   *)
(* injective tagging of its argument (collisions of SHA-1 are not          *)
(* modelled).                                                              *)
(***************************************************************************)
Sha1(s) == <<"sha1", s>>


(***************************************************************************)
(* Python strings that the code takes apart: sequences of tokens.          *)
(***************************************************************************)
\* s.split(sep), acc being the segment read so far
RECURSIVE SplitAcc(_, _, _)
SplitAcc(s, sep, acc) ==
    IF s = <<>> THEN <<acc>>
    ELSE IF Head(s) = sep THEN <<acc>> \o SplitAcc(Tail(s), sep, <<>>)
    ELSE SplitAcc(Tail(s), sep, Append(acc, Head(s)))

Split(s, sep) == SplitAcc(s, sep, <<>>)

\* sep.join(segs)
RECURSIVE Join(_, _)
Join(segs, sep) ==
    IF segs = <<>> THEN <<>>
    ELSE IF Len(segs) = 1 THEN segs[1]
    ELSE segs[1] \o <<sep>> \o Join(Tail(segs), sep)

\* the first index of token t in s, 0 when there is none
IndexOf(s, t) ==
    IF \E i \in DOMAIN s : s[i] = t
    THEN CHOOSE i \in DOMAIN s : s[i] = t /\ \A j \in 1..(i - 1) : s[j] # t
    ELSE 0

\* str.lower() on the scheme tokens of the model
LowerTok(t) ==
    CASE t = "HTTPS" -> "https"
      [] t = "HTTP" -> "http"
      [] t = "FTP" -> "ftp"
      [] t = "S3" -> "s3"
      [] OTHER -> t

Lower(s) == [i \in DOMAIN s |-> LowerTok(s[i])]

\* str(n) for n >= 0, one token per decimal digit
DigitTok(d) == <<"0", "1", "2", "3", "4", "5", "6", "7", "8", "9">>[d + 1]

RECURSIVE PyStrOfInt(_)
PyStrOfInt(n) == IF n < 10 THEN <<DigitTok(n)>> ELSE PyStrOfInt(n \div 10) \o <<DigitTok(n % 10)>>

(***************************************************************************)
(* urllib.parse.urlparse on "scheme://netloc/path": the scheme is          *)
(* lowercased by urlparse itself; a string without "://" is all path.      *)
(***************************************************************************)
UrlParse(raw) ==
    IF Len(raw) >= 2 /\ raw[2] = "://" /\ raw[1] \notin {"/", "://"}
    THEN LET rest == SubSeq(raw, 3, Len(raw))
             i == IndexOf(rest, "/")
         IN [scheme |-> Lower(<<raw[1]>>),
             netloc |-> IF i = 0 THEN rest ELSE SubSeq(rest, 1, i - 1),
             path |-> IF i = 0 THEN <<>> ELSE SubSeq(rest, i, Len(rest))]
    ELSE [scheme |-> <<>>, netloc |-> <<>>, path |-> raw]

\* urllib.parse.urlunparse((scheme, netloc, path, '', '', ''))
UrlUnparse(scheme, netloc, path) ==
    (IF scheme # <<>> THEN scheme \o <<"://">> ELSE <<>>) \o netloc \o path

(***************************************************************************)
(* The repository cache: WF.doMaterializeRepo                              *)
(***************************************************************************)
RepoURLs == {"https://git/a", "https://git/b"}
RepoTags == {None, "", "v1"}
Commits == {"c1", "c2"}
\* stdout of `git rev-parse --verify HEAD` where HEAD cannot be resolved
NoHead == ""

\* What the git subprocesses of one call do: exit codes, the commits the
\* remote's default branch and the requested revision resolve to, and
\* whether a failed clone leaves its target directory behind.  A remote
\* without any commit clones with exit code 0 and leaves HEAD unresolvable;
\* no revision can be checked out of it.
\* Fields that a failed earlier step makes irrelevant are held at one value.
GitOutcomes ==
    {g \in [cloneRc : {0, 128}, cloneLeavesDir : BOOLEAN,
            defaultCommit : Commits \cup {NoHead},
            checkoutRc : {0, 1}, tagCommit : Commits, submoduleRc : {0, 1}] :
        /\ g.cloneRc = 0 => ~g.cloneLeavesDir
        /\ g.defaultCommit = NoHead => g.cloneRc = 0 /\ g.checkoutRc # 0
        /\ g.cloneRc # 0 => g.defaultCommit = "c1" /\ g.checkoutRc = 0
        /\ g.checkoutRc # 0 => g.tagCommit = "c1" /\ g.submoduleRc = 0
        /\ g.cloneRc # 0 => g.tagCommit = "c1" /\ g.submoduleRc = 0}

\* repo_hashed_id
RepoHashedId(repoURL) == Sha1(repoURL)

\* repo_hashed_tag_id
\* (as if an absent tag were hashed as itself rather than as b'')
RepoHashedTagIdRaw(repoTag) == Sha1(repoTag)
RepoHashedTagId(repoTag) == Sha1(IF repoTag = None THEN "" ELSE repoTag)

\* repo_tag_destdir = cacheWorkflowDir/repo_hashed_id/repo_hashed_tag_id
RepoTagDestdir(repoURL, repoTag) == <<RepoHashedId(repoURL), RepoHashedTagId(repoTag)>>

\* os.path.exists(repo_tag_destdir)
\* (as if the existence test were dropped: every call clones again)
SlotExistsNever(cache, slot) == FALSE
SlotExists(cache, slot) == slot \in DOMAIN cache.slots

\* The clone command line: '-n' (no checkout) only when a tag is given.
GitCloneOpPlain(repoTag) == "clone"
GitCloneOp(repoTag) == IF repoTag # None THEN "clone -n" ELSE "clone"

\* The slot after the clone process: on success the directory holds a
\* repository whose HEAD is the remote's default branch; on failure the
\* directory is either gone or left behind without a resolvable HEAD.
AfterClone(cache, slot, git) ==
    IF git.cloneRc = 0
    THEN [cache EXCEPT !.slots = (slot :> git.defaultCommit) @@ @]
    ELSE IF git.cloneLeavesDir
         THEN [cache EXCEPT !.slots = (slot :> NoHead) @@ @]
         ELSE cache

\* The slot after `git checkout repoTag` run inside it.
\* (as if a failed checkout removed the slot)
AfterCheckoutCleaned(cache, slot, git) ==
    IF git.checkoutRc = 0
    THEN [cache EXCEPT !.slots = (slot :> git.tagCommit) @@ @]
    ELSE [cache EXCEPT !.slots = [x \in DOMAIN @ \ {slot} |-> @[x]]]
AfterCheckout(cache, slot, git) ==
    IF git.checkoutRc = 0
    THEN [cache EXCEPT !.slots = (slot :> git.tagCommit) @@ @]
    ELSE cache

\* The subprocess chain of lines 425-433 on an absent slot:
\* [cache, retval, ops], each step run only if the previous retval is 0.
GitChain(cache, slot, repoTag, git) ==
    LET c1 == AfterClone(cache, slot, git)
        r1 == git.cloneRc
        ops1 == <<GitCloneOp(repoTag)>>
        doCheckout == r1 = 0 /\ repoTag # None
        c2 == IF doCheckout THEN AfterCheckout(c1, slot, git) ELSE c1
        r2 == IF doCheckout THEN git.checkoutRc ELSE r1
        ops2 == IF doCheckout THEN Append(ops1, "checkout") ELSE ops1
        doSub == r2 = 0
        r3 == IF doSub THEN git.submoduleRc ELSE r2
        ops3 == IF doSub THEN Append(ops2, "submodule update") ELSE ops2
        rcs2 == IF doCheckout THEN <<r1, r2>> ELSE <<r1>>
        rcs3 == IF doSub THEN Append(rcs2, r3) ELSE rcs2
    IN [cache |-> c2, retval |-> r3, ops |-> ops3, rcs |-> rcs3]

\* stdout of `git rev-parse --verify HEAD` in the slot, rstrip()ped; the
\* exit code of the process is not looked at.
RevParseHead(cache, slot) == cache.slots[slot]

\* the exit code of that process
RevParseRc(cache, slot) == IF cache.slots[slot] = NoHead THEN 128 ELSE 0

\* WF.doMaterializeRepo(repoURL, repoTag): [cache, res] where res is the
\* call's record: its arguments, the git operations it ran, and either the
\* returned pair (dir, rev) or the raised error.
DoMaterializeRepo(cache, repoURL, repoTag, git) ==
    LET slot == RepoTagDestdir(repoURL, repoTag)
        c0 == [cache EXCEPT !.dirs = @ \cup {RepoHashedId(repoURL)}]
        hit == SlotExists(c0, slot)
        chain == IF hit THEN [cache |-> c0, retval |-> 0, ops |-> <<>>, rcs |-> <<>>]
                 ELSE GitChain(c0, slot, repoTag, git)
    IN IF chain.retval # 0
       THEN [cache |-> chain.cache,
             res |-> [url |-> repoURL, tag |-> repoTag, ok |-> FALSE,
                      err |-> "Unable to pull", dir |-> None, rev |-> None,
                      ops |-> chain.ops, rcs |-> chain.rcs]]
       ELSE [cache |-> chain.cache,
             res |-> [url |-> repoURL, tag |-> repoTag, ok |-> TRUE,
                      err |-> None, dir |-> slot,
                      rev |-> RevParseHead(chain.cache, slot),
                      ops |-> Append(chain.ops, "rev-parse"),
                      rcs |-> Append(chain.rcs, RevParseRc(chain.cache, slot))]]

\* The window of the last two calls.
Logged(log, rec) == IF Len(log) < 2 THEN Append(log, rec) ELSE <<log[2], rec>>

EmptyFn == [x \in {} |-> None]

RepoInit ==
    /\ wfCache = [dirs |-> {}, slots |-> EmptyFn]
    /\ repoLog = <<>>


(***************************************************************************)
(* The input cache: WF.downloadInputFile                                   *)
(***************************************************************************)
DEFAULT_SCHEME_HANDLERS ==
    [scheme \in {<<"http">>, <<"https">>, <<"ftp">>} |-> "fetchClassicURL"]

\* self.creds_config: the security contexts the run knows
CredsConfig == {"ctx1"}
ContextNames == {None, "ctx1", "nope"}

\* What one invocation of a scheme handler does: "ok" writes the whole file
\* and returns; "fail" raises and leaves no file; "partial" raises after
\* the file was created.
HandlerOutcomes == {"ok", "fail", "partial"}

\* cachedFilename = cacheWorkflowInputsDir/sha1(remote_file)
CachedFilename(remote_file) == Sha1(remote_file)

\* os.path.exists(cachedFilename)
CachedNever(cache, remote_file) == FALSE
CachedExists(cache, remote_file) == CachedFilename(remote_file) \in DOMAIN cache

\* prettyFilename = parsedInputURL.path.split('/')[-1]
PrettyFilenameWholePath(parsed) == parsed.path
PrettyFilename(parsed) == LET segs == Split(parsed.path, "/") IN segs[Len(segs)]

\* all([scheme, netloc, path])
ValidRemoteAlways(parsed) == TRUE
ValidRemote(parsed) == parsed.scheme # <<>> /\ parsed.netloc # <<>> /\ parsed.path # <<>>

\* The cache after the handler ran for remote_file.
AfterHandler(cache, remote_file, outcome) ==
    CASE outcome = "ok" -> (CachedFilename(remote_file) :> "complete") @@ cache
      [] outcome = "partial" -> (CachedFilename(remote_file) :> "partial") @@ cache
      [] OTHER -> cache

NoContent == [local |-> <<>>, uri |-> <<>>, prettyFilename |-> <<>>]

\* what a call that raised with err had done before: the cache directory
\* test of lines 667-672, the cache lookup of line 676, schemeHandlers.get,
\* creds_config.get, the handler call
StepsBefore(err) ==
    CASE err = "not a valid remote URL" -> <<>>
      [] err = "no scheme handler" -> <<"cache directory", "cache lookup", "handler lookup">>
      [] err = "no security context" ->
             <<"cache directory", "cache lookup", "handler lookup", "context lookup">>
      [] OTHER -> <<"cache directory", "cache lookup", "handler lookup", "context lookup",
                    "handler">>

FetchFailure(cache, remote_file, err, called) ==
    [cache |-> cache, uri |-> remote_file, ok |-> FALSE, err |-> err,
     handlerCalled |-> called, secContext |-> None, content |-> NoContent,
     handler |-> None, steps |-> StepsBefore(err)]

\* the handler that was invoked and the secContext it was given
By(r, handler, secContext) == [r EXCEPT !.handler = handler, !.secContext = secContext]

\* The MaterializedContent a successful call returns.
Content(remote_file, parsed) ==
    [local |-> CachedFilename(remote_file), uri |-> remote_file,
     prettyFilename |-> PrettyFilename(parsed)]

\* secContext = self.creds_config.get(contextName)
SecContext(contextName) ==
    IF contextName # None /\ contextName \in CredsConfig THEN contextName ELSE None

\* Lines 660-696, the URI being parsed already.
DownloadParsed(parsed, cache, handlers, remote_file, contextName, outcome) ==
    IF ~ValidRemote(parsed)
    THEN FetchFailure(cache, remote_file, "not a valid remote URL", FALSE)
    ELSE IF CachedExists(cache, remote_file)
    THEN [cache |-> cache, uri |-> remote_file, ok |-> TRUE, err |-> None,
          handlerCalled |-> FALSE, secContext |-> None,
          content |-> Content(remote_file, parsed), handler |-> None,
          steps |-> <<"cache directory", "cache lookup">>]
    ELSE IF Lower(parsed.scheme) \notin DOMAIN handlers
    THEN FetchFailure(cache, remote_file, "no scheme handler", FALSE)
    ELSE IF contextName # None /\ SecContext(contextName) = None
    THEN FetchFailure(cache, remote_file, "no security context", FALSE)
    ELSE IF outcome # "ok"
    THEN By(FetchFailure(AfterHandler(cache, remote_file, outcome), remote_file,
                         "handler failed", TRUE),
            handlers[Lower(parsed.scheme)], SecContext(contextName))
    ELSE [cache |-> AfterHandler(cache, remote_file, outcome), uri |-> remote_file,
          ok |-> TRUE, err |-> None, handlerCalled |-> TRUE,
          secContext |-> SecContext(contextName),
          content |-> Content(remote_file, parsed),
          handler |-> handlers[Lower(parsed.scheme)],
          steps |-> StepsBefore(None)]

\* WF.downloadInputFile(remote_file, contextName=contextName):
\* [cache, uri, ok, err, handlerCalled, secContext, content]
DownloadInputFile(cache, handlers, remote_file, contextName, outcome) ==
    DownloadParsed(UrlParse(remote_file), cache, handlers, remote_file, contextName,
                   outcome)

\* The URIs of the model.
Ua == <<"https", "://", "x", "/", "a">>
Uda == <<"https", "://", "x", "/", "d", "/", "a">>
U3a == <<"https", "://", "x", "/", "3", "_", "a">>
URIs == {Ua, Uda, U3a}

\* More strings that a direct call may be given: a scheme in upper case, a
\* scheme that gets a handler only through addSchemeHandler, a scheme that
\* never has one, and strings without a scheme, a host or a path.
UUpper == <<"HTTPS", "://", "x", "/", "a">>
Us3 == <<"s3", "://", "x", "/", "a">>
US3 == <<"S3", "://", "x", "/", "a">>
Ugs == <<"gs", "://", "x", "/", "a">>
UBare == <<"a">>
UNoPath == <<"https", "://", "x">>
UNoHost == <<"https", "://", "/", "a">>
AnyURIs == {Ua, UUpper, Us3, US3, Ugs, UBare, UNoPath, UNoHost}

\* addSchemeHandler arguments: the scheme as written, and the handler, which
\* may be something that is not a function
SchemesAdded == {<<"S3">>, <<"s3">>, <<"HTTPS">>}
NotCallable == "not a function"
HandlersAdded == {"fetchS3", NotCallable}

\* self.schemeHandlers[scheme.lower()] = handler
StoredSchemeRaw(scheme) == scheme
StoredScheme(scheme) == Lower(scheme)

\* WF.addSchemeHandler(scheme, handler): the handlers after the call; a
\* handler that is not a function raises and changes nothing
AddedSchemeHandler(handlers, scheme, handler) ==
    IF handler = NotCallable
    THEN handlers
    ELSE (StoredScheme(scheme) :> handler) @@ handlers

\* A scheme handler is invoked at most MaxHandlerCalls times per URI.
MaxHandlerCalls == 2

FetchInit ==
    /\ inputCache = EmptyFn
    /\ schemeHandlers = DEFAULT_SCHEME_HANDLERS
    /\ handlerCalls = [u \in URIs |-> 0]
    /\ fetchLog = <<>>

\* One call of downloadInputFile, by any run that shares the cache directory.
Download ==
    \E remote_file \in URIs, contextName \in ContextNames, outcome \in HandlerOutcomes :
        LET r == DownloadInputFile(inputCache, schemeHandlers, remote_file,
                                   contextName, outcome)
            n == handlerCalls[remote_file] + (IF r.handlerCalled THEN 1 ELSE 0)
        IN /\ n <= MaxHandlerCalls
           /\ inputCache' = r.cache
           /\ handlerCalls' = [handlerCalls EXCEPT ![remote_file] = n]
           /\ fetchLog' = <<[r EXCEPT !.cache = None] @@ [context |-> contextName]>>
           /\ UNCHANGED <<schemeHandlers, wfCache, repoLog, run, roCrateCache, ask, resolved,
                        fs, wf, runs, cloning,
                docker>>

(***************************************************************************)
(* Parameter trees: the Python values of self.params.  Every value is a    *)
(* node [kind, s, items]: kind "none" (None), "str" (s holds the string),  *)
(* "list" and "dict" (items holds the entries [k, v] in order; the k of a  *)
(* list entry is its index).                                               *)
(***************************************************************************)
PyNone == [kind |-> "none", s |-> <<>>, items |-> <<>>]
PyStr(t) == [kind |-> "str", s |-> t, items |-> <<>>]
PyList(nodes) ==
    [kind |-> "list", s |-> <<>>,
     items |-> [i \in DOMAIN nodes |-> [k |-> PyStrOfInt(i - 1), v |-> nodes[i]]]]
PyDict(entries) == [kind |-> "dict", s |-> <<>>, items |-> entries]

\* dict.get(key)
DictGet(d, key) ==
    IF \E i \in DOMAIN d.items : d.items[i].k = key
    THEN d.items[CHOOSE i \in DOMAIN d.items : d.items[i].k = key].v
    ELSE PyNone

\* the Python list held by a list node
ListValues(node) == [i \in DOMAIN node.items |-> node.items[i].v]

ClassKey == <<"c-l-a-s-s">>
UrlKey == <<"url">>
ContextKey == <<"security-context">>

(***************************************************************************)
(* The input walk: WF.fetchInputs                                          *)
(***************************************************************************)
\* remote_files = inputs['url'], wrapped in a list when it is not one
RemoteFilesFirstOnly(urlNode) ==
    IF urlNode.kind = "list"
    THEN (IF urlNode.items = <<>> THEN <<>> ELSE <<urlNode.items[1].v>>)
    ELSE <<urlNode>>
RemoteFiles(urlNode) == IF urlNode.kind = "list" THEN ListValues(urlNode) ELSE <<urlNode>>

\* contextName = inputs.get('security-context')
ContextName(inputs) ==
    LET c == DictGet(inputs, ContextKey) IN IF c.kind = "none" THEN None ELSE c.s[1]

\* os.path.exists(os.path.join(workflowInputs_destdir, name)): the empty name
\* is the directory itself; a link exists when its target does.
PathExists(w, name) ==
    name = <<>> \/ (name \in DOMAIN w.dir /\ w.dir[name] \in DOMAIN w.cache)

\* prettyLocal: the name the reference is created under
PrettyLocal(w, lastInput, prettyFilename) ==
    IF PathExists(w, prettyFilename)
    THEN PyStrOfInt(lastInput) \o <<"_">> \o prettyFilename
    ELSE prettyFilename

\* what the handler does for remote_file in this walk
OutcomeFor(net, remote_file) ==
    IF remote_file \in DOMAIN net THEN net[remote_file] ELSE "fail"

\* The world of a walk, w: the input cache, the run's inputs directory
\* (name -> link target), the URIs a handler was invoked for, and the
\* staging events; secs is the secContext argument of each invocation.
AfterDownload(w, d) ==
    [w EXCEPT !.cache = d.cache,
              !.hlog = IF d.handlerCalled THEN Append(@, d.uri) ELSE @,
              !.secs = IF d.handlerCalled THEN Append(@, d.secContext) ELSE @]

StagingEvent(w, content, n, local) ==
    [uri |-> content.uri, pretty |-> content.prettyFilename,
     existed |-> PathExists(w, content.prettyFilename), counter |-> n,
     local |-> local, created |-> local \notin DOMAIN w.dir]

\* os.symlink(matContent.local, prettyLocal)
AfterSymlink(w, content, n, local) ==
    [w EXCEPT !.dir = (local :> content.local) @@ @,
              !.events = Append(@, StagingEvent(w, content, n, local))]

\* The loop of lines 341-358 over the remaining remote_files of one File
\* node: [pairs, lastInput, w, err].
RECURSIVE StageFiles(_, _, _, _, _, _, _)

\* lines 356-358: the link is created under the name local, or os.symlink
\* raises because the name is there
StageLink(local, content, n, remote_files, contextName, w, pairs, handlers, net) ==
    IF local \in DOMAIN w.dir
    THEN [pairs |-> pairs, lastInput |-> n,
          w |-> [w EXCEPT !.events = Append(@, StagingEvent(w, content, n, local))],
          err |-> "FileExistsError"]
    ELSE StageFiles(Tail(remote_files), contextName, n,
                    AfterSymlink(w, content, n, local),
                    Append(pairs, [local |-> local, uri |-> content.uri,
                                   prettyFilename |-> content.prettyFilename]),
                    handlers, net)

\* lines 349-358, d being what downloadInputFile did
StageDownloaded(d, remote_files, contextName, lastInput, w, pairs, handlers, net) ==
    IF ~d.ok
    THEN [pairs |-> pairs, lastInput |-> lastInput, w |-> w, err |-> d.err]
    ELSE StageLink(PrettyLocal(w, lastInput + 1, d.content.prettyFilename), d.content,
                   lastInput + 1, remote_files, contextName, w, pairs, handlers, net)

StageNext(d, remote_files, contextName, lastInput, w, pairs, handlers, net) ==
    StageDownloaded(d, remote_files, contextName, lastInput, AfterDownload(w, d), pairs,
                    handlers, net)

StageFiles(remote_files, contextName, lastInput, w, pairs, handlers, net) ==
    IF remote_files = <<>>
    THEN [pairs |-> pairs, lastInput |-> lastInput, w |-> w, err |-> None]
    ELSE StageNext(DownloadInputFile(w.cache, handlers, remote_files[1].s, contextName,
                                     OutcomeFor(net, remote_files[1].s)),
                   remote_files, contextName, lastInput, w, pairs, handlers, net)

\* raise WFException('Unrecognized input class ...')
SkipUnrecognized(lastInput, w) ==
    [theInputs |-> <<>>, lastInput |-> lastInput, w |-> w, err |-> None]
RaiseUnrecognized(lastInput, w) ==
    [theInputs |-> <<>>, lastInput |-> lastInput, w |-> w,
     err |-> "Unrecognized input class"]

\* line 360: theInputs.append(MaterializedInput(linearKey, remote_pairs))
FileInput(linearKey, staged) ==
    [theInputs |-> <<[name |-> linearKey, values |-> staged.pairs]>>,
     lastInput |-> staged.lastInput, w |-> staged.w, err |-> staged.err]

\* lines 367-370: a value that is not a mapping
LeafInput(linearKey, inputs, lastInput, w) ==
    [theInputs |-> <<[name |-> linearKey,
                      values |-> IF inputs.kind = "list" THEN ListValues(inputs)
                                 ELSE <<inputs>>]>>,
     lastInput |-> lastInput, w |-> w, err |-> None]

\* theInputs.extend(...) / theInputs.append(...) ahead of what follows
PrependedAfter(theInputs, rest) == [rest EXCEPT !.theInputs = @ \o theInputs]
Prepended(theInputs, rest) == [rest EXCEPT !.theInputs = theInputs \o @]

\* WF.fetchInputs over the remaining entries of a mapping:
\* [theInputs, lastInput, w, err]
RECURSIVE FetchInputs(_, _, _, _, _, _)

\* lines 333-366: a mapping value, inputClass being its class tag
FetchMapping(inputs, inputClass, linearKey, lastInput, w, handlers, net) ==
    IF inputClass.kind # "none"
    THEN IF inputClass = PyStr(<<"File">>)
         THEN FileInput(linearKey,
                        StageFiles(RemoteFiles(DictGet(inputs, UrlKey)),
                                   ContextName(inputs), lastInput, w, <<>>, handlers, net))
         ELSE RaiseUnrecognized(lastInput, w)
    ELSE FetchInputs(inputs.items, linearKey \o <<".">>, lastInput, w, handlers, net)

\* the body of the loop of line 329 for one (key, inputs)
FetchEntry(linearKey, inputs, lastInput, w, handlers, net) ==
    IF inputs.kind = "dict"
    THEN FetchMapping(inputs, DictGet(inputs, ClassKey), linearKey, lastInput, w,
                      handlers, net)
    ELSE LeafInput(linearKey, inputs, lastInput, w)

\* the rest of the loop after one entry gave here; an exception ends it
FetchRest(here, entries, prefix, handlers, net) ==
    IF here.err # None
    THEN here
    ELSE Prepended(here.theInputs,
                   FetchInputs(entries, prefix, here.lastInput, here.w, handlers, net))

FetchInputs(entries, prefix, lastInput, w, handlers, net) ==
    IF entries = <<>>
    THEN [theInputs |-> <<>>, lastInput |-> lastInput, w |-> w, err |-> None]
    ELSE FetchRest(FetchEntry(prefix \o entries[1].k, entries[1].v, lastInput, w,
                              handlers, net),
                   Tail(entries), prefix, handlers, net)

(***************************************************************************)
(* The parameter trees of the model                                        *)
(***************************************************************************)
\* the longest url list of a File node
MaxUrls == 3

Entry(key, node) == [k |-> <<key>>, v |-> node]
FileNode(urlNode) ==
    PyDict(<<[k |-> ClassKey, v |-> PyStr(<<"File">>)], [k |-> UrlKey, v |-> urlNode]>>)
FileNodeCtx(urlNode, ctx) ==
    PyDict(<<[k |-> ClassKey, v |-> PyStr(<<"File">>)], [k |-> UrlKey, v |-> urlNode],
             [k |-> ContextKey, v |-> PyStr(<<ctx>>)]>>)
UnknownNode == PyDict(<<[k |-> ClassKey, v |-> PyStr(<<"Unknown">>)]>>)
NullClassNode == PyDict(<<[k |-> ClassKey, v |-> PyNone]>>)
Scalar == PyStr(<<"s">>)
StrList(strs) == PyList([i \in DOMAIN strs |-> PyStr(strs[i])])

UrlSeqs == UNION {[1..k -> {Ua, U3a}] : k \in 0..MaxUrls}

FileLeaves ==
    {FileNode(StrList(us)) : us \in UrlSeqs}
        \cup {FileNode(PyStr(u)) : u \in URIs}
        \cup {FileNodeCtx(PyStr(Ua), "nope"), FileNodeCtx(PyStr(Ua), "ctx1")}

OtherLeaves ==
    {Scalar, StrList(<<<<"s">>, <<"t">>>>), UnknownNode, NullClassNode,
     PyList(<<Scalar, UnknownNode>>)}

SmallLeaves ==
    {FileNode(PyStr(Ua)), FileNode(PyStr(Uda)), FileNode(StrList(<<Ua, U3a>>)),
     Scalar, UnknownNode, PyList(<<Scalar, UnknownNode>>)}

ParamTrees ==
    {PyDict(<<Entry("p", l)>>) : l \in FileLeaves \cup OtherLeaves}
        \cup {PyDict(<<Entry("p", l1), Entry("q", l2)>>) : l1 \in SmallLeaves, l2 \in SmallLeaves}
        \cup {PyDict(<<Entry("p", PyDict(<<Entry("q", l1)>>)), Entry("r", l2)>>) :
                 l1 \in SmallLeaves, l2 \in SmallLeaves}
        \cup {PyDict(<<Entry("p", PyDict(<<Entry("q", PyDict(<<Entry("r", l)>>))>>))>>) :
                 l \in SmallLeaves}

(***************************************************************************)
(* The engine registry: WF.WORKFLOW_ENGINES                                *)
(***************************************************************************)
CWLType == [engineName |-> "cwl", uri |-> "https://w3id.org/cwl/v1.0/",
            trs_descriptor |-> "CWL"]
NextflowType == [engineName |-> "nextflow", uri |-> "https://www.nextflow.io/",
                 trs_descriptor |-> "NFL"]

\* in the order of WORKFLOW_ENGINE_CLASSES
WORKFLOW_ENGINES == <<NextflowType, CWLType>>

\* RECOGNIZED_TRS_DESCRIPTORS.keys(), in insertion order
RecognizedDescriptors == [i \in DOMAIN WORKFLOW_ENGINES |-> WORKFLOW_ENGINES[i].trs_descriptor]

\* chosenDescriptorType in self.RECOGNIZED_TRS_DESCRIPTORS
IsRecognizedDescriptor(d) == \E i \in DOMAIN WORKFLOW_ENGINES : RecognizedDescriptors[i] = d

\* RECOGNIZED_TRS_DESCRIPTORS[d]
EngineOfDescriptor(d) ==
    WORKFLOW_ENGINES[CHOOSE i \in DOMAIN WORKFLOW_ENGINES : RecognizedDescriptors[i] = d]

\* mainEntityProgrammingLanguageId in self.RECOGNIZED_ROCRATE_PROG_LANG
IsRecognizedLanguage(lang) == \E i \in DOMAIN WORKFLOW_ENGINES : WORKFLOW_ENGINES[i].uri = lang

\* RECOGNIZED_ROCRATE_PROG_LANG[lang]
EngineOfLanguage(lang) ==
    WORKFLOW_ENGINES[CHOOSE i \in DOMAIN WORKFLOW_ENGINES : WORKFLOW_ENGINES[i].uri = lang]

(***************************************************************************)
(* The packaging phase: WF.downloadROcrate, WF.getWorkflowRepoFromROCrate  *)
(***************************************************************************)
\* an absent string (None) where the value is otherwise a token sequence
NoneStr == <<None>>

NoRepo == [repoURL |-> NoneStr, repoTag |-> NoneStr, repoRelPath |-> NoneStr]

\* A resolution that raised.
Failed(cache, err, trace) ==
    [ok |-> FALSE, err |-> err, trace |-> trace, engine |-> None, repo |-> NoRepo,
     version |-> 0, descriptor |-> None, cache |-> cache]

\* WF.downloadROcrate: [cache, ok, fetched]; the download is attempted only
\* when the cached file is not there, and a failed one may leave a partial file.
\* (as if the crate were fetched on every call)
DownloadROcrateAlways(cache, roCrateURL, outcome) ==
    [cache |-> AfterHandler(cache, roCrateURL, outcome), ok |-> outcome = "ok",
     fetched |-> TRUE]
DownloadROcrate(cache, roCrateURL, outcome) ==
    IF Sha1(roCrateURL) \in DOMAIN cache
    THEN [cache |-> cache, ok |-> TRUE, fetched |-> FALSE]
    ELSE [cache |-> AfterHandler(cache, roCrateURL, outcome), ok |-> outcome = "ok",
          fetched |-> TRUE]

\* if not repoGitPath[-1].endswith('.git'): repoGitPath[-1] += '.git'
GitSuffixedAlways(seg) == Append(seg, ".git")
GitSuffixed(seg) ==
    IF seg # <<>> /\ seg[Len(seg)] = ".git" THEN seg ELSE Append(seg, ".git")

\* lines 602-616, wf_path being parsed_wf_url.path.split('/')
RepoFromPath(parsed, wf_path) ==
    IF Len(wf_path) >= 3
    THEN [repoURL |-> UrlUnparse(parsed.scheme, parsed.netloc,
                                 Join(<<wf_path[1], wf_path[2], GitSuffixed(wf_path[3])>>,
                                      "/")),
          repoTag |-> IF Len(wf_path) >= 5 /\ wf_path[4] = <<"blob">>
                      THEN wf_path[5] ELSE NoneStr,
          repoRelPath |-> IF Len(wf_path) >= 6 /\ wf_path[4] = <<"blob">>
                          THEN Join(SubSeq(wf_path, 6, Len(wf_path)), "/") ELSE NoneStr]
    ELSE NoRepo

\* lines 595-623, parsed being parse.urlparse(wf_url)
GuessRepo(parsed, lang, cache, trace) ==
    IF parsed.netloc = <<"github.com">>
    THEN [ok |-> TRUE, err |-> None, trace |-> trace, engine |-> EngineOfLanguage(lang).engineName,
          repo |-> RepoFromPath(parsed, Split(parsed.path, "/")), version |-> 0,
          descriptor |-> None, cache |-> cache]
    ELSE Failed(cache, "Unable to guess repository", trace)

\* not ((expectedProgrammingLanguageId is not None) and
\*      mainEntityProgrammingLanguageId != expectedProgrammingLanguageId)
LanguageMatchesAlways(lang, expected) == TRUE
LanguageMatches(lang, expected) == expected = None \/ lang = expected

\* lines 569-623, the crate being the content of the downloaded archive
ReadCrate(crate, expectedProgrammingLanguageId, cache, trace) ==
    IF ~IsRecognizedLanguage(crate.lang)
    THEN Failed(cache, "programming language is not among the acknowledged ones", trace)
    ELSE IF ~LanguageMatches(crate.lang, expectedProgrammingLanguageId)
    THEN Failed(cache, "Expected programming language does not match", trace)
    ELSE GuessRepo(UrlParse(crate.isBasedOn), crate.lang, cache,
                   Append(trace, "repository guess"))

\* lines 567-569, dl being what downloadROcrate did
OpenCrate(dl, roCrateURL, expectedProgrammingLanguageId, crate, trace) ==
    IF ~dl.ok
    THEN Failed(dl.cache, "Cannot download RO-Crate", trace)
    ELSE IF dl.cache[Sha1(roCrateURL)] # "complete"
    THEN Failed(dl.cache, "cannot open RO-Crate", trace)
    ELSE ReadCrate(crate, expectedProgrammingLanguageId, dl.cache,
                   Append(trace, "language check"))

Attempted(dl, trace) == IF dl.fetched THEN Append(trace, "crate download") ELSE trace

Downloaded(dl, roCrateURL, expectedProgrammingLanguageId, crate, trace) ==
    OpenCrate(dl, roCrateURL, expectedProgrammingLanguageId, crate, Attempted(dl, trace))

\* WF.getWorkflowRepoFromROCrate(roCrateURL, expectedProgrammingLanguageId=expectedId):
\* [ok, err, trace, engine, repo, cache]
GetWorkflowRepoFromROCrate(cache, roCrateURL, expectedId, crate, outcome, trace) ==
    Downloaded(DownloadROcrate(cache, roCrateURL, outcome), roCrateURL, expectedId, crate,
               trace)

(***************************************************************************)
(* The registry phase: WF.getWorkflowRepoFromTRS                           *)
(***************************************************************************)
\* str(version_id) of WF.__init__: str(None) is the string 'None'
PyStrOfIdentity(v) == v
PyStrOf(v) == IF v = NoneStr THEN <<"None">> ELSE v

\* Python's < on two version identifiers (strings of digits)
DigitRank(t) == CHOOSE d \in 0..9 : DigitTok(d) = t

RECURSIVE StrLess(_, _)
StrLess(a, b) ==
    IF b = <<>> THEN FALSE
    ELSE IF a = <<>> THEN TRUE
    ELSE IF a[1] = b[1] THEN StrLess(Tail(a), Tail(b))
    ELSE DigitRank(a[1]) < DigitRank(b[1])

\* lines 502-505: the first version whose id is version_id, 0 when none
ExactVersion(versions, version_id) ==
    IF \E i \in DOMAIN versions : versions[i].id = version_id
    THEN CHOOSE i \in DOMAIN versions :
             versions[i].id = version_id /\ \A j \in 1..(i - 1) : versions[j].id # version_id
    ELSE 0

\* lines 512-517 from version i on: the version kept, 0 when none
RECURSIVE MaxVersion(_, _, _, _)
MaxVersion(versions, i, toolVersion, toolVersionId) ==
    IF i > Len(versions) THEN toolVersion
    ELSE IF versions[i].id # <<>> /\ StrLess(toolVersionId, versions[i].id)
    THEN MaxVersion(versions, i + 1, i, versions[i].id)
    ELSE MaxVersion(versions, i + 1, toolVersion, toolVersionId)

\* lines 499-517: the index of toolVersion, 0 when there is none
SelectVersion(versions, version_id) ==
    IF version_id # <<>>
    THEN ExactVersion(versions, version_id)
    ELSE MaxVersion(versions, 1, 0, <<>>)

\* toolDescriptorTypes = toolVersion.get('descriptor_type', [])
ToolDescriptorTypes(toolVersion) ==
    IF toolVersion.desc.present THEN toolVersion.desc.types ELSE <<>>

Listed(types, d) == \E i \in DOMAIN types : types[i] = d

\* lines 534-537: the first recognized descriptor type that the version lists
\* (as if the version's own order decided)
FirstListedRecognized(types) ==
    IF \E i \in DOMAIN types : IsRecognizedDescriptor(types[i])
    THEN types[CHOOSE i \in DOMAIN types :
                   /\ IsRecognizedDescriptor(types[i])
                   /\ \A j \in 1..(i - 1) : ~IsRecognizedDescriptor(types[j])]
    ELSE None
FirstRecognized(types) ==
    IF \E i \in DOMAIN RecognizedDescriptors : Listed(types, RecognizedDescriptors[i])
    THEN RecognizedDescriptors[
             CHOOSE i \in DOMAIN RecognizedDescriptors :
                 /\ Listed(types, RecognizedDescriptors[i])
                 /\ \A j \in 1..(i - 1) : ~Listed(types, RecognizedDescriptors[j])]
    ELSE None

\* roCrateURL
RoCrateURL(id, toolVersionId, chosenDescriptorType) ==
    <<"https", "://", "trs", "/", id, "/versions/">> \o toolVersionId
        \o <<"/", chosenDescriptorType, "/files?format=zip">>

\* the outcome r of a resolution that went on with descriptor type d
WithDescriptor(r, d) == [r EXCEPT !.descriptor = d]

\* lines 551-558
FetchCrate(a, toolVersion, chosenDescriptorType, cache, trace) ==
    WithDescriptor(
        GetWorkflowRepoFromROCrate(cache,
                                   RoCrateURL(a.id, toolVersion.id, chosenDescriptorType),
                                   EngineOfDescriptor(chosenDescriptorType).uri,
                                   a.crate, a.outcome, trace),
        chosenDescriptorType)

\* lines 533-541: no descriptor type is pinned
GuessDescriptor(a, toolVersion, candidate, cache, trace) ==
    IF candidate = None
    THEN Failed(cache, "no acknowledged descriptor_type", trace)
    ELSE FetchCrate(a, toolVersion, candidate, cache, trace)

\* lines 542-549: self.descriptor_type is pinned
PinnedDescriptor(a, toolVersion, cache, trace) ==
    IF ~toolVersion.desc.present
    THEN Failed(cache, "KeyError: 'descriptor_type'", trace)
    ELSE IF ~Listed(toolVersion.desc.types, a.descriptor_type)
    THEN Failed(cache, "Descriptor type not available", trace)
    ELSE IF ~IsRecognizedDescriptor(a.descriptor_type)
    THEN Failed(cache, "Descriptor type is not among the acknowledged ones", trace)
    ELSE FetchCrate(a, toolVersion, a.descriptor_type, cache, trace)

\* lines 524-558, toolVersion being the version selected
ChooseDescriptor(a, toolVersion, cache, trace) ==
    IF toolVersion.desc.present /\ ~toolVersion.desc.isList
    THEN Failed(cache, "no valid descriptor_type", trace)
    ELSE IF a.descriptor_type = None
    THEN GuessDescriptor(a, toolVersion, FirstRecognized(ToolDescriptorTypes(toolVersion)),
                         cache, trace)
    ELSE PinnedDescriptor(a, toolVersion, cache, trace)

\* the outcome r of a resolution that went on with manifest version i
WithVersion(r, i) == [r EXCEPT !.version = i]

\* lines 506-522, i being the index of the version selected (0: none)
VersionSelected(a, i, cache, trace) ==
    IF i = 0
    THEN Failed(cache, IF PyStrOf(a.version_id) # <<>> THEN "Version not found"
                       ELSE "No valid version was found", trace)
    ELSE WithVersion(ChooseDescriptor(a, a.toolDesc.versions[i], cache,
                                      Append(trace, "descriptor selection")), i)

\* lines 493-522, self.version_id being str(version_id)
ChooseVersion(a, cache, trace) ==
    IF a.toolDesc.versions = <<>>
    THEN Failed(cache, "Version not found", trace)
    ELSE VersionSelected(a, SelectVersion(a.toolDesc.versions, PyStrOf(a.version_id)),
                         cache, Append(trace, "version selection"))

\* if toolDesc.get('toolclass', {}).get('name', '') != 'Workflow'
IsWorkflowAlways(toolDesc) == TRUE
IsWorkflow(toolDesc) == toolDesc.toolclass = "Workflow"

\* WF.getWorkflowRepoFromTRS, a being the instance's reference together with
\* what the registry and the network answer: [ok, err, trace, engine, repo, cache]
GetWorkflowRepoFromTRS(a, cache) ==
    IF ~IsWorkflow(a.toolDesc)
    THEN Failed(cache, "not labelled as a workflow", <<"class check">>)
    ELSE ChooseVersion(a, cache, <<"class check">>)

(***************************************************************************)
(* The resolutions of the model                                            *)
(***************************************************************************)
\* the longest versions list of a tool manifest
MaxVersions == 2
\* the longest path (in segments) of an isBasedOn URL
MaxSegments == 6

ListDesc(types) == [present |-> TRUE, isList |-> TRUE, types |-> types]
ToolVersions ==
    {[id |-> <<"2">>, desc |-> ListDesc(<<"CWL">>)],
     [id |-> <<"2">>, desc |-> ListDesc(<<"NFL", "CWL">>)],
     [id |-> <<"1", "0">>, desc |-> ListDesc(<<"WDL">>)],
     [id |-> <<"1", "0">>, desc |-> ListDesc(<<"CWL", "NFL">>)],
     [id |-> <<"1", "0">>, desc |-> [present |-> FALSE, isList |-> FALSE, types |-> <<>>]],
     [id |-> <<"2">>, desc |-> [present |-> TRUE, isList |-> FALSE, types |-> <<>>]],
     [id |-> <<>>, desc |-> ListDesc(<<"CWL">>)]}

ToolDescs ==
    [toolclass : {"Workflow", "Tool", ""},
     versions : UNION {[1..k -> ToolVersions] : k \in 0..MaxVersions}]

\* the raw URL scheme://host/seg1/.../segk
RECURSIVE PathOf(_)
PathOf(segs) == IF segs = <<>> THEN <<>> ELSE <<"/">> \o Head(segs) \o PathOf(Tail(segs))

RawUrl(scheme, host, segs) == <<scheme, "://", host>> \o PathOf(segs)

GitHubBlob == RawUrl("https", "github.com", <<<<"o">>, <<"r">>, <<"blob">>, <<"v1">>, <<"wf">>>>)
GitLabBlob == RawUrl("https", "gitlab.com", <<<<"o">>, <<"r">>, <<"blob">>, <<"v1">>, <<"wf">>>>)

Languages == {CWLType.uri, NextflowType.uri, None, "https://other/"}

CratesOfRegistry ==
    {[lang |-> l, isBasedOn |-> GitHubBlob] : l \in Languages}
        \cup {[lang |-> CWLType.uri, isBasedOn |-> GitLabBlob]}

NoAsk == [kind |-> "none"]

\* A WF instance with a registry identifier, and the answers it will get.
TRSAsks ==
    [kind : {"TRS"}, id : {"wf1"},
     version_id : {NoneStr, <<>>, <<"2">>, <<"1", "0">>, <<"7">>},
     descriptor_type : {None, "CWL", "NFL", "WDL"}, toolDesc : ToolDescs,
     crate : CratesOfRegistry, outcome : {"ok", "fail"}]

Segments == {<<"o">>, <<"r", ".git">>, <<"blob">>, <<>>}
SourceUrls ==
    {RawUrl("https", "github.com", segs) :
        segs \in UNION {[1..k -> Segments] : k \in 0..MaxSegments}}

\* A direct call of getWorkflowRepoFromROCrate, and the answers it will get.
CrateAsks ==
    [kind : {"ROCrate"}, roCrateURL : {RoCrateURL("wf1", <<"2">>, "CWL")},
     expected : {None}, crate : [lang : {CWLType.uri}, isBasedOn : SourceUrls],
     outcome : {"ok"}]
        \cup
    [kind : {"ROCrate"}, roCrateURL : {RoCrateURL("wf1", <<"2">>, "CWL")},
     expected : {None, CWLType.uri, NextflowType.uri},
     crate : [lang : Languages,
              isBasedOn : {GitHubBlob, GitLabBlob,
                           RawUrl("HTTPS", "github.com", <<<<"o">>>>),
                           <<"github.com", "/", "o", "/", "r">>}],
     outcome : {"ok", "fail", "partial"}]

\* the RO-Crate cache as earlier runs may have left it
CacheStates ==
    {EmptyFn}
        \cup {[h \in {Sha1(RoCrateURL("wf1", v, d)) : v \in {<<"2">>, <<"1", "0">>},
                                                     d \in {"CWL", "NFL"}} |-> st] :
                 st \in {"complete", "partial"}}

NoResolution == [ok |-> FALSE, err |-> None, trace |-> <<>>, engine |-> None,
                 repo |-> NoRepo, version |-> 0, descriptor |-> None, cache |-> None]

ResolveInit ==
    /\ roCrateCache = EmptyFn
    /\ ask = NoAsk
    /\ resolved = NoResolution

(***************************************************************************)
(* The directories of a WF instance: WF.__init__                           *)
(***************************************************************************)
\* os.makedirs(path, exist_ok=True): the directory and all its ancestors
MakeDirs(dirs, path) == dirs \cup {SubSeq(path, 1, k) : k \in 1..Len(path)}

\* os.makedirs of each path of a list, in order
RECURSIVE MakeAll(_, _)
MakeAll(dirs, paths) ==
    IF paths = <<>> THEN dirs ELSE MakeAll(MakeDirs(dirs, Head(paths)), Tail(paths))

\* the directory attributes of an instance whose cache directory, work
\* directory and instanceId are given
\* (as if the working directories were not named by the instanceId)
InstanceDirsUnnamed(cacheDir, workDir, instanceId) ==
    [cacheDir |-> cacheDir,
     cacheWorkflowDir |-> Append(cacheDir, "wf-cache"),
     cacheROCrateDir |-> Append(cacheDir, "ro-crate-cache"),
     cacheWorkflowInputsDir |-> Append(cacheDir, "wf-inputs"),
     workDir |-> workDir,
     inputsDir |-> workDir \o <<"inputs">>,
     intermediateDir |-> workDir \o <<"intermediate">>,
     outputsDir |-> workDir \o <<"outputs">>,
     engineTweaksDir |-> workDir \o <<"engineTweaks">>]
InstanceDirs(cacheDir, workDir, instanceId) ==
    [cacheDir |-> cacheDir,
     cacheWorkflowDir |-> Append(cacheDir, "wf-cache"),
     cacheROCrateDir |-> Append(cacheDir, "ro-crate-cache"),
     cacheWorkflowInputsDir |-> Append(cacheDir, "wf-inputs"),
     workDir |-> Append(workDir, instanceId),
     inputsDir |-> workDir \o <<instanceId, "inputs">>,
     intermediateDir |-> workDir \o <<instanceId, "intermediate">>,
     outputsDir |-> workDir \o <<instanceId, "outputs">>,
     engineTweaksDir |-> workDir \o <<instanceId, "engineTweaks">>]

\* the directories that lines 150-202 make, in that order: the one made at
\* line 202 is self.outputsDir
MadeByInit(d) ==
    <<d.cacheDir, SubSeq(d.workDir, 1, Len(d.workDir) - 1), d.workDir, d.cacheWorkflowDir,
      d.cacheROCrateDir, d.cacheWorkflowInputsDir, d.inputsDir, d.intermediateDir,
      d.outputsDir, d.outputsDir>>

\* local_config.get('cacheDir') / local_config.get('workDir'), None when not set
LocalConfigs == [cacheDir : {None, <<"c1">>}, workDir : {None, <<"w1">>, <<"w2">>}]

\* what tempfile.mkdtemp and uuid.uuid4 may give
TempDirs == {<<"tmp", "t1">>, <<"tmp", "t2">>, <<"tmp", "t3">>}
InstanceIds == {"id1", "id2"}

\* cacheDir = local_config.get('cacheDir'), a fresh temporary directory when falsy
DirOrTemp(configured, temp) == IF configured # None THEN configured ELSE temp

NoDirs == InstanceDirs(<<>>, <<>>, "")

\* the attributes that fetchWorkflow sets, as lines 207-214 leave them
NoFields ==
    [repoURL |-> NoneStr, repoTag |-> NoneStr, repoRelPath |-> NoneStr, repoDir |-> NoneStr,
     repoEffectiveCheckout |-> None, engineDesc |-> None, engineVer |-> None]

\* self.localWorkflow while it is None
NoLocalWorkflow == [dir |-> NoneStr, relPath |-> NoneStr, effectiveCheckout |-> None]

\* A constructed instance whose directories are d.  engine,
\* materializedEngine, listOfContainers and materializedParams are None
\* (lines 212-219); calls, log and handoffs record the calls made on the
\* instance and what executeWorkflow handed to the engine; staged is what
\* self.inputsDir holds.
NewWF(d) ==
    [phase |-> "constructed", dirs |-> d, f |-> NoFields, err |-> None, steps |-> <<>>,
     asked |-> <<>>, engine |-> None, materializedEngine |-> None, listOfContainers |-> None,
     materializedParams |-> None, calls |-> 0, log |-> <<>>, handoffs |-> <<>>,
     localWorkflow |-> NoLocalWorkflow, staged |-> EmptyFn]

NoWF == [NewWF(NoDirs) EXCEPT !.phase = "none"]

WFInit ==
    /\ fs = {}
    /\ wf = NoWF


(***************************************************************************)
(* WF.fetchWorkflow                                                        *)
(***************************************************************************)
\* What the engine classes answer in one run.  The Nextflow engine class is
\* not part of these sources: whether its constructor takes the
\* cacheWorkflowDir keyword and what its identifyWorkflow returns are open.
\* cwlVer is self.cwl_version, None only when the configuration says so.
EngineEnvs == [nfAccepts : BOOLEAN, nfVer : {None, "21.04.0"}, cwlVer : {None, "3.0"}]

\* engineDesc.clazz(...): CWLWorkflowEngine.__init__ has no cacheWorkflowDir
\* parameter, so passing that keyword raises TypeError
ConstructorAcceptsAny(engineName, e, withCacheWorkflowDir) == TRUE
ConstructorAccepts(engineName, e, withCacheWorkflowDir) ==
    IF engineName = CWLType.engineName
    THEN ~withCacheWorkflowDir
    ELSE withCacheWorkflowDir => e.nfAccepts

\* engineVer of engine.identifyWorkflow(localWorkflow)
IdentifyWorkflow(engineName, e) ==
    IF engineName = CWLType.engineName THEN e.cwlVer ELSE e.nfVer

\* a string of one token, or the empty string, as a plain value
FlatStr(seq) == IF seq = <<>> THEN "" ELSE seq[1]

FlatTag(tag) == IF tag = NoneStr THEN None ELSE FlatStr(tag)

\* fetchWorkflow raised: the attributes assigned so far stay assigned
FetchFailed(c, err) ==
    [ok |-> FALSE, err |-> err, f |-> c.f, steps |-> c.steps, asked |-> c.asked,
     wfCache |-> c.wfCache, roCrateCache |-> c.roCrateCache]

\* lines 277-282
Fetched(c, engineName, engineVer) ==
    [ok |-> TRUE, err |-> None,
     f |-> [c.f EXCEPT !.repoDir = c.dir, !.repoEffectiveCheckout = c.rev,
                       !.engineDesc = engineName, !.engineVer = engineVer],
     steps |-> c.steps, asked |-> c.asked,
     wfCache |-> c.wfCache, roCrateCache |-> c.roCrateCache]

Asked(c, engineName) == [c EXCEPT !.asked = Append(@, engineName)]

\* lines 261-270, from the i-th registered engine on
RECURSIVE TryEngines(_, _, _)
TryEngines(c, e, i) ==
    IF i > Len(WORKFLOW_ENGINES)
    THEN FetchFailed(c, "No engine recognized a workflow")
    ELSE IF ~ConstructorAccepts(WORKFLOW_ENGINES[i].engineName, e, TRUE)
    THEN FetchFailed(c, "TypeError: unexpected keyword argument 'cacheWorkflowDir'")
    ELSE IF IdentifyWorkflow(WORKFLOW_ENGINES[i].engineName, e) # None
    THEN Fetched(Asked(c, WORKFLOW_ENGINES[i].engineName), WORKFLOW_ENGINES[i].engineName,
                 IdentifyWorkflow(WORKFLOW_ENGINES[i].engineName, e))
    ELSE TryEngines(Asked(c, WORKFLOW_ENGINES[i].engineName), e, i + 1)

\* lines 271-275
AskPinned(c, engineName, e) ==
    IF ~ConstructorAccepts(engineName, e, FALSE)
    THEN FetchFailed(c, "TypeError: unexpected keyword argument")
    ELSE IF IdentifyWorkflow(engineName, e) = None
    THEN FetchFailed(Asked(c, engineName), "Engine did not recognize a workflow")
    ELSE Fetched(Asked(c, engineName), engineName, IdentifyWorkflow(engineName, e))

\* lines 258-275
Step(c, step) == [c EXCEPT !.steps = Append(@, step)]

Dispatch(c, e) ==
    IF c.pinned = None
    THEN TryEngines(Step(c, "try engines in order"), e, 1)
    ELSE AskPinned(Step(c, "ask pinned engine"), c.pinned, e)

\* lines 253-257
CheckRelPath(a, c) ==
    IF c.f.repoRelPath # NoneStr /\ ~a.relExists
    THEN FetchFailed(c, "Relative path cannot be found")
    ELSE Dispatch(Step(c, "identify engine"), a.engines)

\* lines 249-251, m being what doMaterializeRepo did
Cloned(a, c, m) ==
    IF ~m.res.ok
    THEN FetchFailed([c EXCEPT !.wfCache = m.cache], m.res.err)
    ELSE CheckRelPath(a, [c EXCEPT !.wfCache = m.cache, !.dir = m.res.dir,
                                   !.rev = m.res.rev])

\* lines 241-249; sha1 of an absent repoURL raises AttributeError
Located(a, c) ==
    IF c.f.repoURL = NoneStr
    THEN FetchFailed(Step(c, "doMaterializeRepo"),
                     "AttributeError: 'NoneType' object has no attribute 'encode'")
    ELSE Cloned(a, Step(c, "doMaterializeRepo"),
                DoMaterializeRepo(c.wfCache, c.f.repoURL, FlatTag(c.f.repoTag), a.git))

\* if repoRelPath == '': repoRelPath = None
RelPathOrNone(repoRelPath) == IF repoRelPath = <<>> THEN NoneStr ELSE repoRelPath

\* the context of one fetchWorkflow call before anything ran
FetchContext(wc, rc) ==
    [f |-> NoFields, pinned |-> None, dir |-> NoneStr, rev |-> None, steps |-> <<>>,
     asked |-> <<>>, wfCache |-> wc, roCrateCache |-> rc]

\* lines 233-247, r being what getWorkflowRepoFromTRS did
FromTRS(a, c, r) ==
    IF ~r.ok
    THEN FetchFailed([c EXCEPT !.roCrateCache = r.cache], r.err)
    ELSE Located(a, [c EXCEPT !.roCrateCache = r.cache, !.pinned = r.engine,
                              !.f.repoURL = r.repo.repoURL, !.f.repoTag = r.repo.repoTag,
                              !.f.repoRelPath = RelPathOrNone(r.repo.repoRelPath)])

\* lines 236-247: the id is the repository, the version its revision
\* (as if an engine were pinned for a repository URL)
FromURLPinned(a, c) ==
    Located(a, [c EXCEPT !.f.repoURL = a.id, !.f.repoTag = PyStrOf(a.version_id),
                         !.pinned = CWLType.engineName])
FromURL(a, c) ==
    Located(a, [c EXCEPT !.f.repoURL = a.id, !.f.repoTag = PyStrOf(a.version_id)])

\* the reference as getWorkflowRepoFromTRS reads it
TRSAskOf(a) == [a EXCEPT !.id = FlatStr(a.id)]

\* WF.fetchWorkflow: [ok, err, f, steps, asked, wfCache, roCrateCache]
FetchWorkflow(a, wc, rc) ==
    IF UrlParse(a.id).scheme = <<>>
    THEN FromTRS(a, Step(FetchContext(wc, rc), "getWorkflowRepoFromTRS"),
                 GetWorkflowRepoFromTRS(TRSAskOf(a), rc))
    ELSE FromURL(a, FetchContext(wc, rc))

\* The references of the model's fetches and what they are answered.  A
\* registry identifier comes with a manifest and a crate; for a repository
\* URL these are never read and are held at one value.
RegistryFetches ==
    [kind : {"WF"}, id : {<<"wf1">>}, version_id : {<<"2">>},
     descriptor_type : {None, "CWL", "NFL"},
     toolDesc : [toolclass : {"Workflow"},
                 versions : {<<[id |-> <<"2">>, desc |-> ListDesc(<<"CWL">>)]>>,
                             <<[id |-> <<"2">>, desc |-> ListDesc(<<"NFL", "CWL">>)]>>}]
                    \cup [toolclass : {"Tool"}, versions : {<<>>}],
     crate : [lang : {CWLType.uri, NextflowType.uri},
              isBasedOn : {GitHubBlob, GitLabBlob,
                           RawUrl("https", "github.com", <<<<"o">>, <<"r">>>>),
                           RawUrl("https", "github.com", <<<<"o">>>>)}],
     outcome : {"ok"}]

UrlFetches ==
    [kind : {"WF"}, id : {RawUrl("https", "git", <<<<"a">>>>)},
     version_id : {NoneStr, <<>>, <<"v1">>}, descriptor_type : {None},
     toolDesc : [toolclass : {"Tool"}, versions : {<<>>}],
     crate : [lang : {CWLType.uri}, isBasedOn : {GitLabBlob}], outcome : {"ok"}]

\* r extended by the fields of s
Extended(r, s) == [k \in DOMAIN r \cup DOMAIN s |-> IF k \in DOMAIN s THEN s[k] ELSE r[k]]

FetchAsks ==
    {Extended(a, [git |-> g, relExists |-> x, engines |-> e]) :
        a \in RegistryFetches \cup UrlFetches, g \in GitOutcomes, x \in BOOLEAN,
        e \in EngineEnvs}


\* Two processes that call doMaterializeRepo on one cache directory.
\* the calls one process makes
MaxCloneCalls == 2

Procs == {1, 2}
RaceURL == "https://git/a"
RaceTags == {None, "v1"}

GitAllFine ==
    [cloneRc |-> 0, cloneLeavesDir |-> FALSE, defaultCommit |-> "c1", checkoutRc |-> 0,
     tagCommit |-> "c2", submoduleRc |-> 0]
GitCloneFails == [GitAllFine EXCEPT !.cloneRc = 128, !.tagCommit = "c1"]
GitCloneKilled == [GitCloneFails EXCEPT !.cloneLeavesDir = TRUE]
GitCheckoutFails == [GitAllFine EXCEPT !.checkoutRc = 1, !.tagCommit = "c1"]
RaceGits == {GitAllFine, GitCloneFails, GitCloneKilled, GitCheckoutFails}

\* last: how the process's last call ended
IdleProc ==
    [pc |-> "idle", tag |-> None, git |-> GitAllFine, calls |-> 0, last |-> <<"none", None>>]

\* inflight: the processes whose clone runs in a slot; starts: the clone
\* processes started per slot; removed: the slot directories that a failed
\* clone removed; duplicated: the slots that two clones ran in at once.
NoCloning(mode) ==
    [mode |-> mode, procs |-> [p \in Procs |-> IdleProc], inflight |-> EmptyFn,
     starts |-> EmptyFn, removed |-> EmptyFn, duplicated |-> {}]

\* One of two runs that share workDir and the caches: where it is in
\* lines 341-358 ("ready": about to fetch the next URL, "fetched":
\* downloadInputFile returned, "named": prettyLocal is chosen), its
\* directories, the URLs still to fetch, lastInput, the content fetched, the
\* name chosen, and its staging events.
NoInstance ==
    [pc |-> "none", dirs |-> NoDirs, urls |-> <<>>, lastInput |-> 0, content |-> NoContent,
     local |-> <<>>, events |-> <<>>, err |-> None]

\* links: every reference that exists, [dir, name] -> [target, by]
NoRuns == [inst |-> [p \in Procs |-> NoInstance], links |-> EmptyFn]

RunsInit == runs = NoRuns

\* A materializeContainers call: where it is in lines 93-142 ("inspect":
\* line 98, "pull": 102, "inspect again": 105, "parse": 121), the entry of
\* tagList it handles, the docker commands run so far, the retval and output
\* of the last one, and containersList.  images: the images at hand.
NoDocker ==
    [pc |-> "idle", tagList |-> <<>>, n |-> 0, ops |-> <<>>, retval |-> 0, out |-> "",
     containersList |-> <<>>, err |-> None, images |-> {}]

ConcInit == RunsInit /\ cloning = NoCloning("sequential") /\ docker = NoDocker

NoWalk == [ok |-> FALSE, err |-> None, theInputs |-> <<>>, lastInput |-> 0,
           hlog |-> <<>>, secs |-> <<>>, events |-> <<>>]

RunInit == run = [phase |-> "none", params |-> PyDict(<<>>), inputsDir |-> EmptyFn,
                  walk |-> NoWalk]

vars == <<wfCache, repoLog, inputCache, schemeHandlers, handlerCalls, fetchLog, run,
          roCrateCache, ask, resolved, fs, wf, runs, cloning,
                docker>>

Init == RepoInit /\ FetchInit /\ RunInit /\ ResolveInit /\ WFInit /\ ConcInit

\* One call of doMaterializeRepo by some run sharing the cache directory.
MaterializeRepo ==
    \E repoURL \in RepoURLs, repoTag \in RepoTags, git \in GitOutcomes :
        LET r == DoMaterializeRepo(wfCache, repoURL, repoTag, git)
        IN /\ wfCache' = r.cache
           /\ repoLog' = Logged(repoLog, r.res)
           /\ UNCHANGED <<inputCache, schemeHandlers, handlerCalls, fetchLog, run, roCrateCache, ask,
                        resolved, fs, wf, runs, cloning,
                docker>>

NextRepo == MaterializeRepo

SpecRepo == Init /\ [][NextRepo]_vars

NextFetch == Download

SpecFetch == Init /\ [][NextFetch]_vars

\* One call of addSchemeHandler.
AddSchemeHandler ==
    \E scheme \in SchemesAdded, handler \in HandlersAdded :
        /\ schemeHandlers' = AddedSchemeHandler(schemeHandlers, scheme, handler)
        /\ UNCHANGED <<wfCache, repoLog, inputCache, handlerCalls, fetchLog, run, roCrateCache,
                       ask, resolved, fs, wf, runs, cloning,
                docker>>

\* the record of a direct call: what it gave, its context name and the
\* handlers registered when it was made
CallRecord(r, contextName, handlers) ==
    <<[r EXCEPT !.cache = None] @@ [context |-> contextName, handlers |-> handlers]>>

\* One call of downloadInputFile with any string as the URI (the handler
\* invocations are not counted here).
DownloadAny ==
    \E remote_file \in AnyURIs, contextName \in ContextNames, outcome \in HandlerOutcomes :
        /\ inputCache' = DownloadInputFile(inputCache, schemeHandlers, remote_file,
                                           contextName, outcome).cache
        /\ fetchLog' = CallRecord(DownloadInputFile(inputCache, schemeHandlers, remote_file,
                                                    contextName, outcome),
                                  contextName, schemeHandlers)
        /\ UNCHANGED <<wfCache, repoLog, schemeHandlers, handlerCalls, run, roCrateCache,
                       ask, resolved, fs, wf, runs, cloning,
                docker>>

NextSchemes == AddSchemeHandler \/ DownloadAny

SpecSchemes == Init /\ [][NextSchemes]_vars

\* WF.__init__: a new instance, with a fresh instanceId and so an empty
\* inputs directory, replaces the one observed.
NewRun ==
    /\ run.phase # "constructed"
    /\ \E params \in ParamTrees :
           run' = [phase |-> "constructed", params |-> params, inputsDir |-> EmptyFn,
                   walk |-> NoWalk]
    /\ UNCHANGED <<wfCache, repoLog, inputCache, schemeHandlers, handlerCalls, fetchLog,
                   roCrateCache, ask, resolved, fs, wf, runs, cloning,
                docker>>

\* The instance after the walk gave r.
Materialized(r) ==
    [run EXCEPT !.phase = "materialized",
                !.inputsDir = r.w.dir,
                !.walk = [ok |-> r.err = None, err |-> r.err,
                          theInputs |-> IF r.err = None THEN r.theInputs ELSE <<>>,
                          lastInput |-> r.lastInput,
                          hlog |-> r.w.hlog, secs |-> r.w.secs,
                          events |-> r.w.events]]

WalkDone(r) ==
    /\ inputCache' = r.w.cache
    /\ run' = Materialized(r)

\* WF.materializeInputs: the walk of self.params into self.inputsDir.
MaterializeInputs ==
    /\ run.phase = "constructed"
    /\ \E net \in [URIs -> HandlerOutcomes] :
           WalkDone(FetchInputs(run.params.items, <<>>, 0,
                                [cache |-> inputCache, dir |-> run.inputsDir,
                                 hlog |-> <<>>, secs |-> <<>>, events |-> <<>>],
                                schemeHandlers, net))
    /\ UNCHANGED <<wfCache, repoLog, schemeHandlers, handlerCalls, fetchLog, roCrateCache, ask,
                   resolved, fs, wf, runs, cloning,
                docker>>

NextWalk == NewRun \/ MaterializeInputs

SpecWalk == Init /\ [][NextWalk]_vars

Unresolved == resolved.trace = <<>>

Resolved(r) ==
    /\ roCrateCache' = r.cache
    /\ resolved' = [r EXCEPT !.cache = None]
    /\ UNCHANGED <<wfCache, repoLog, inputCache, schemeHandlers, handlerCalls, fetchLog, run,
                   ask, fs, wf, runs, cloning,
                docker>>

\* The registry resolution of one WF instance whose id is not a URL.
ResolveFromTRS ==
    /\ ask.kind = "TRS" /\ Unresolved
    /\ Resolved(GetWorkflowRepoFromTRS(ask, roCrateCache))

InitTRS ==
    /\ RepoInit /\ FetchInit /\ RunInit /\ WFInit /\ ConcInit
    /\ ask \in TRSAsks
    /\ roCrateCache \in CacheStates
    /\ resolved = NoResolution

NextTRS == ResolveFromTRS

SpecTRS == InitTRS /\ [][NextTRS]_vars

\* One call of getWorkflowRepoFromROCrate.
ResolveFromROCrate ==
    /\ ask.kind = "ROCrate" /\ Unresolved
    /\ Resolved(GetWorkflowRepoFromROCrate(roCrateCache, ask.roCrateURL, ask.expected,
                                           ask.crate, ask.outcome, <<"downloadROcrate">>))

InitROCrate ==
    /\ RepoInit /\ FetchInit /\ RunInit /\ WFInit /\ ConcInit
    /\ ask \in CrateAsks
    /\ roCrateCache \in CacheStates
    /\ resolved = NoResolution

NextROCrate == ResolveFromROCrate

SpecROCrate == InitROCrate /\ [][NextROCrate]_vars

\* the instance that WF.__init__ leaves, d being its directories
Constructed(d) ==
    /\ fs' = MakeAll(fs, MadeByInit(d))
    /\ wf' = NewWF(d)
    /\ UNCHANGED <<wfCache, repoLog, inputCache, schemeHandlers, handlerCalls, fetchLog, run,
                   roCrateCache, ask, resolved, runs, cloning,
                docker>>

\* WF.__init__ of one more instance: temporary directories and the
\* instanceId are fresh.
Construct ==
    \E cfg \in LocalConfigs, tc \in TempDirs, tw \in TempDirs, id \in InstanceIds :
        /\ cfg.cacheDir = None => tc \notin fs
        /\ cfg.workDir = None => tw \notin fs
        /\ (cfg.cacheDir = None /\ cfg.workDir = None) => tc # tw
        /\ Append(DirOrTemp(cfg.workDir, tw), id) \notin fs
        /\ Constructed(InstanceDirs(DirOrTemp(cfg.cacheDir, tc), DirOrTemp(cfg.workDir, tw), id))

NextConstruct == Construct

SpecConstruct == Init /\ [][NextConstruct]_vars

\* the attributes after a fetchWorkflow that assigned f: an attribute that
\* the call did not reach keeps the value it had
\* (as if the call began by clearing the attributes)
AssignedAfresh(old, f) == f
Assigned(old, f) == [k \in DOMAIN old |-> IF f[k] = NoFields[k] THEN old[k] ELSE f[k]]

\* lines 250 and 282: identifyWorkflow of the CWL engine gives back the
\* LocalWorkflow it was given
LocalWorkflowOf(f) ==
    [dir |-> f.repoDir, relPath |-> f.repoRelPath, effectiveCheckout |-> f.repoEffectiveCheckout]

\* the instance i after fetchWorkflow did r; self.engine is assigned at
\* line 280 only
FetchedBy(i, r) ==
    [i EXCEPT !.phase = IF r.ok THEN "fetched" ELSE "fetch failed",
              !.f = Assigned(@, r.f), !.err = r.err, !.steps = r.steps, !.asked = r.asked,
              !.engine = IF r.ok THEN r.f.engineDesc ELSE @,
              !.localWorkflow = IF r.ok THEN LocalWorkflowOf(r.f) ELSE @]

\* the instance after fetchWorkflow did r
AfterFetch(r) == FetchedBy(wf, r)

DoneFetch(r) ==
    /\ wf' = AfterFetch(r)
    /\ wfCache' = r.wfCache
    /\ roCrateCache' = r.roCrateCache
    /\ UNCHANGED <<repoLog, inputCache, schemeHandlers, handlerCalls, fetchLog, run, ask,
                   resolved, fs, runs, cloning,
                docker>>

\* fetchWorkflow of the constructed instance.
FetchWorkflowCall ==
    /\ wf.phase = "constructed" /\ ask.kind = "WF"
    /\ DoneFetch(FetchWorkflow(ask, wfCache, roCrateCache))

InitWF ==
    /\ RepoInit /\ FetchInit /\ RunInit /\ ConcInit
    /\ ask \in FetchAsks
    /\ roCrateCache = EmptyFn
    /\ resolved = NoResolution
    /\ wf = NewWF(InstanceDirs(<<"c1">>, <<"w1">>, "id1"))
    /\ fs = MakeAll({}, MadeByInit(wf.dirs))

NextWF == FetchWorkflowCall

SpecWF == InitWF /\ [][NextWF]_vars

(***************************************************************************)
(* The life of one instance: fetchWorkflow, setupEngine,                   *)
(* materializeWorkflow, materializeInputs and executeWorkflow, called in   *)
(* any order                                                               *)
(***************************************************************************)
\* the calls made on one instance
MaxLifeCalls == 3

\* what git does in one call, what engine.materializeEngine and
\* WorkflowEngine.MaterializeWorkflow do (they return or raise), and what
\* the handlers answer during one materializeInputs
LifeGits == {GitAllFine, GitCloneFails}
EngineOutcomes == {"ok", "raise"}
LifeNets == {[u \in URIs |-> o] : o \in HandlerOutcomes}
LifeParams == PyDict(<<Entry("p", FileNode(PyStr(Ua)))>>)

\* one step of the call-th call on the instance, made by the entry point by
Event(call, by, step, ok) == [call |-> call, by |-> by, step |-> step, ok |-> ok]

Noted(i, by, step, ok) == [i EXCEPT !.log = Append(@, Event(i.calls + 1, by, step, ok))]

StepEvents(call, by, steps) == [n \in 1..Len(steps) |-> Event(call, by, steps[n], TRUE)]

\* self.fetchWorkflow() inside the entry point by, r being what it did
FetchWorkflowBy(i, by, r) ==
    [FetchedBy(i, r) EXCEPT
        !.log = i.log \o StepEvents(i.calls + 1, by, r.steps)
                     \o <<Event(i.calls + 1, by, "fetchWorkflow", r.ok)>>]

\* line 286 (as if the engine were fetched on every call)
NeedsFetchAlways(i) == TRUE
NeedsFetch(i) == i.engine = None

\* lines 286-287
EngineReady(i, by, r) ==
    IF NeedsFetch(i) THEN FetchWorkflowBy(i, by, r) ELSE [i EXCEPT !.err = None]

\* line 289, eo being what engine.materializeEngine does
MaterializeEngine(i, by, eo) ==
    IF i.err # None
    THEN i
    ELSE IF eo = "ok"
    THEN Noted([i EXCEPT !.materializedEngine = "engine"], by, "materializeEngine", TRUE)
    ELSE Noted([i EXCEPT !.err = "WorkflowEngineException"], by, "materializeEngine", FALSE)

\* WF.setupEngine inside the entry point by
SetupEngineBy(i, by, r, eo) == MaterializeEngine(EngineReady(i, by, r), by, eo)

\* line 292
NeedsSetup(i) == i.materializedEngine = None

\* lines 292-293
EngineMaterialized(i, r, eo) ==
    IF NeedsSetup(i)
    THEN SetupEngineBy(i, "materializeWorkflow", r, eo)
    ELSE [i EXCEPT !.err = None]

\* line 296, wo being what WorkflowEngine.MaterializeWorkflow does
WorkflowMaterialized(i, wo) ==
    IF i.err # None
    THEN i
    ELSE IF wo = "ok"
    THEN Noted([i EXCEPT !.materializedEngine = "workflow", !.listOfContainers = "[]"],
                "materializeWorkflow", "MaterializeWorkflow", TRUE)
    ELSE Noted([i EXCEPT !.err = "WorkflowEngineException"],
                "materializeWorkflow", "MaterializeWorkflow", FALSE)

\* lines 312-313, r being what fetchInputs did
ParamsMaterialized(i, r) ==
    IF r.err = None
    THEN Noted([i EXCEPT !.err = None, !.materializedParams = "theParams", !.staged = r.w.dir],
                "materializeInputs", "fetchInputs", TRUE)
    ELSE Noted([i EXCEPT !.err = r.err, !.staged = r.w.dir],
               "materializeInputs", "fetchInputs", FALSE)

\* line 375: the attributes go to WorkflowEngine.ExecuteWorkflow as they
\* are; without a materialized engine there is no engine to hand them to
Handed(i) ==
    IF i.materializedEngine = None
    THEN Noted([i EXCEPT !.err = "AttributeError"], "executeWorkflow", "ExecuteWorkflow", FALSE)
    ELSE Noted([i EXCEPT !.err = None,
                          !.handoffs = Append(@, [materializedEngine |-> i.materializedEngine,
                                                  materializedParams |-> i.materializedParams,
                                                  at |-> Len(i.log)])],
                "executeWorkflow", "ExecuteWorkflow", TRUE)

Called1(i) == [i EXCEPT !.calls = @ + 1]

LifeUnchanged ==
    UNCHANGED <<repoLog, schemeHandlers, handlerCalls, fetchLog, run, ask, resolved, fs, runs,
                cloning,
                docker>>

\* the caches after a call that ran fetchWorkflow (ran) or did not
CachesAfter(ran, r) ==
    /\ wfCache' = IF ran THEN r.wfCache ELSE wfCache
    /\ roCrateCache' = IF ran THEN r.roCrateCache ELSE roCrateCache

CanCall == wf.phase # "none" /\ ask.kind = "WF" /\ wf.calls < MaxLifeCalls

\* what the registry answers to one call: the tool as it is, or a tool that
\* is no workflow any more
LifeToolDescs == {ask.toolDesc, [toolclass |-> "Tool", versions |-> <<>>]}

FetchNow(g, td) ==
    FetchWorkflow([ask EXCEPT !.git = g, !.toolDesc = td], wfCache, roCrateCache)

\* WF.fetchWorkflow, called directly
FetchWorkflowAgain ==
    /\ CanCall
    /\ \E g \in LifeGits, td \in LifeToolDescs :
           /\ wf' = Called1(FetchWorkflowBy(wf, "fetchWorkflow", FetchNow(g, td)))
           /\ CachesAfter(TRUE, FetchNow(g, td))
    /\ UNCHANGED inputCache
    /\ LifeUnchanged

\* WF.setupEngine
SetupEngine ==
    /\ CanCall
    /\ \E g \in LifeGits, td \in LifeToolDescs, eo \in EngineOutcomes :
           /\ wf' = Called1(SetupEngineBy(wf, "setupEngine", FetchNow(g, td), eo))
           /\ CachesAfter(NeedsFetch(wf), FetchNow(g, td))
    /\ UNCHANGED inputCache
    /\ LifeUnchanged

\* WF.materializeWorkflow
MaterializeWorkflow ==
    /\ CanCall
    /\ \E g \in LifeGits, td \in LifeToolDescs, eo \in EngineOutcomes, wo \in EngineOutcomes :
           /\ wf' = Called1(WorkflowMaterialized(EngineMaterialized(wf, FetchNow(g, td), eo),
                                                 wo))
           /\ CachesAfter(NeedsSetup(wf) /\ NeedsFetch(wf), FetchNow(g, td))
    /\ UNCHANGED inputCache
    /\ LifeUnchanged

WalkNow(net) ==
    FetchInputs(LifeParams.items, <<>>, 0,
                [cache |-> inputCache, dir |-> wf.staged, hlog |-> <<>>, secs |-> <<>>,
                 events |-> <<>>],
                schemeHandlers, net)

\* WF.materializeInputs of the instance
MaterializeInputsCall ==
    /\ CanCall
    /\ \E net \in LifeNets :
           /\ wf' = Called1(ParamsMaterialized(wf, WalkNow(net)))
           /\ inputCache' = WalkNow(net).w.cache
    /\ UNCHANGED <<wfCache, roCrateCache>>
    /\ LifeUnchanged

\* WF.executeWorkflow
ExecuteWorkflow ==
    /\ CanCall
    /\ wf' = Called1(Handed(wf))
    /\ UNCHANGED <<wfCache, roCrateCache, inputCache>>
    /\ LifeUnchanged

\* the references of the model's instances
LifeAsks ==
    {a \in FetchAsks :
        /\ a.relExists /\ a.engines.nfAccepts /\ a.engines.cwlVer # None
        /\ a.git = GitAllFine
        /\ a.descriptor_type \in {None, "CWL"}
        /\ a.version_id \in {<<"2">>, <<"v1">>}
        /\ a.crate.isBasedOn \in {GitHubBlob, GitLabBlob}}

InitLife ==
    /\ RepoInit /\ FetchInit /\ RunInit /\ ConcInit
    /\ ask \in LifeAsks
    /\ roCrateCache = EmptyFn
    /\ resolved = NoResolution
    /\ wf = NewWF(InstanceDirs(<<"c1">>, <<"w1">>, "id1"))
    /\ fs = MakeAll({}, MadeByInit(wf.dirs))

NextLife ==
    \/ FetchWorkflowAgain
    \/ SetupEngine
    \/ MaterializeWorkflow
    \/ MaterializeInputsCall
    \/ ExecuteWorkflow

SpecLife == InitLife /\ [][NextLife]_vars

\* Resolutions of either kind.
InitResolve == InitTRS \/ InitROCrate

NextResolve == ResolveFromTRS \/ ResolveFromROCrate

SpecResolve == InitResolve /\ [][NextResolve]_vars

(***************************************************************************)
(* The three caches together: runs that execute one after another call     *)
(* doMaterializeRepo, downloadROcrate (through getWorkflowRepoFromROCrate) *)
(* and downloadInputFile on the same cache directories                     *)
(***************************************************************************)
SharedGits == {GitAllFine, GitCloneFails, GitCheckoutFails}
SharedCrateURLs == {RoCrateURL("wf1", <<"2">>, "CWL"), RoCrateURL("wf1", <<"2">>, "NFL")}
SharedCrate == [lang |-> CWLType.uri, isBasedOn |-> GitHubBlob]
SharedURIs == {Ua, Uda}

\* one call of doMaterializeRepo by some run
SharedRepoCall ==
    /\ \E repoTag \in RaceTags, git \in SharedGits :
           /\ wfCache' = DoMaterializeRepo(wfCache, RaceURL, repoTag, git).cache
           /\ repoLog' = Logged(repoLog, DoMaterializeRepo(wfCache, RaceURL, repoTag, git).res)
    /\ UNCHANGED <<inputCache, schemeHandlers, handlerCalls, fetchLog, run, roCrateCache, ask,
                   resolved, fs, wf, runs, cloning,
                docker>>

\* the caches and records after getWorkflowRepoFromROCrate(roCrateURL) did r
CrateCalled(roCrateURL, r) ==
    /\ roCrateCache' = r.cache
    /\ resolved' = [r EXCEPT !.cache = None]
    /\ ask' = [kind |-> "ROCrate", roCrateURL |-> roCrateURL]

\* one call of getWorkflowRepoFromROCrate, and so of downloadROcrate, by
\* some run
SharedCrateCall ==
    /\ \E roCrateURL \in SharedCrateURLs, outcome \in HandlerOutcomes :
           CrateCalled(roCrateURL,
                       GetWorkflowRepoFromROCrate(roCrateCache, roCrateURL, None, SharedCrate,
                                                  outcome, <<"downloadROcrate">>))
    /\ UNCHANGED <<wfCache, repoLog, inputCache, schemeHandlers, handlerCalls, fetchLog, run,
                   fs, wf, runs, cloning,
                docker>>

\* the cache and the record after downloadInputFile did r
InputCalled(r) ==
    /\ inputCache' = r.cache
    /\ fetchLog' = <<[r EXCEPT !.cache = None]>>

\* one call of downloadInputFile by some run
SharedInputCall ==
    /\ \E remote_file \in SharedURIs, outcome \in HandlerOutcomes :
           InputCalled(DownloadInputFile(inputCache, schemeHandlers, remote_file, None, outcome))
    /\ UNCHANGED <<wfCache, repoLog, schemeHandlers, handlerCalls, run, roCrateCache, ask,
                   resolved, fs, wf, runs, cloning,
                docker>>

NextCaches == SharedRepoCall \/ SharedCrateCall \/ SharedInputCall

SpecCaches == Init /\ [][NextCaches]_vars

(***************************************************************************)
(* DockerContainerFactory.materializeContainers, step by step              *)
(***************************************************************************)
\* the entries of one tagList
MaxTags == 2

DOCKER_PROTO == "docker://"
Tags == {<<DOCKER_PROTO, "a">>, <<"a">>, <<"b">>}
TagLists == UNION {[1..k -> Tags] : k \in 0..MaxTags}

\* tag[len(DOCKER_PROTO):] if tag.startswith(DOCKER_PROTO) else tag
DockerTagKept(tag) == tag
DockerTag(tag) == IF tag # <<>> /\ tag[1] = DOCKER_PROTO THEN Tail(tag) ELSE tag

\* what `docker inspect` may give for a tag: with the image at hand its
\* manifests, an output that is not a list of manifests, or a failure;
\* without it a failure
InspectOutcomes(images, dockerTag) ==
    IF dockerTag \in images THEN {"manifests", "garbled", "failed"} ELSE {"failed"}

RetvalOf(out) == IF out = "failed" THEN 1 ELSE 0

\* the manifest of the image of a tag
ManifestOf(dockerTag) ==
    [Id |-> <<"sha256:">> \o dockerTag,
     RepoDigests |-> IF dockerTag = <<"a">> THEN <<"a@sha256:1">> ELSE <<>>]

\* lines 125-127
Fingerprint(manifest) ==
    IF Len(manifest.RepoDigests) > 0 THEN manifest.RepoDigests[1] ELSE None

\* lines 129-137
Container(tag, dockerTag, manifest) ==
    [origTaggedName |-> tag, taggedName |-> dockerTag, signature |-> manifest.Id,
     fingerprint |-> Fingerprint(manifest), type |-> "docker"]

DockerOthersUnchanged ==
    UNCHANGED <<wfCache, repoLog, inputCache, schemeHandlers, handlerCalls, fetchLog, run,
                roCrateCache, ask, resolved, fs, wf, runs, cloning>>

\* the call after the loop is entered for entry n: line 93
Entered(d, n) ==
    IF n > Len(d.tagList)
    THEN [d EXCEPT !.pc = "returned", !.n = n]
    ELSE [d EXCEPT !.pc = "inspect", !.n = n]

\* materializeContainers(tagList, ...) is called; the images stay
StartMaterialize ==
    /\ docker.pc \in {"idle", "returned", "raised"}
    /\ \E tagList \in TagLists :
           docker' = Entered([NoDocker EXCEPT !.tagList = tagList, !.images = docker.images], 1)
    /\ DockerOthersUnchanged

Ran(d, op, retval, out) ==
    [d EXCEPT !.ops = Append(@, [entry |-> d.n, op |-> op, tag |-> DockerTag(d.tagList[d.n]),
                                 retval |-> retval]),
              !.retval = retval, !.out = out]

\* line 101 (as if the image were pulled whatever inspect said)
NeedsPullAlways(retval) == TRUE
NeedsPull(retval) == retval # 0

\* lines 96-101
InspectTag ==
    /\ docker.pc = "inspect"
    /\ \E out \in InspectOutcomes(docker.images, DockerTag(docker.tagList[docker.n])) :
           docker' = [Ran(docker, "inspect", RetvalOf(out), out) EXCEPT
                          !.pc = IF NeedsPull(RetvalOf(out)) THEN "pull" ELSE "parse"]
    /\ DockerOthersUnchanged

CouldNotMaterialize(d) ==
    [d EXCEPT !.pc = "raised", !.err = "Could not materialize docker image"]

\* the call after docker pull ended with retval: lines 102-103, 108-119
PullEnded(d, retval) ==
    IF retval = 0
    THEN [Ran(d, "pull", 0, "pulled") EXCEPT
              !.pc = "inspect again", !.images = @ \cup {DockerTag(d.tagList[d.n])}]
    ELSE CouldNotMaterialize(Ran(d, "pull", retval, "failed"))

PullTag ==
    /\ docker.pc = "pull"
    /\ \E retval \in {0, 1} : docker' = PullEnded(docker, retval)
    /\ DockerOthersUnchanged

\* lines 104-105, 108-119
InspectedAgain(d, out) ==
    IF RetvalOf(out) # 0
    THEN CouldNotMaterialize(Ran(d, "inspect", RetvalOf(out), out))
    ELSE [Ran(d, "inspect", 0, out) EXCEPT !.pc = "parse"]

InspectAgain ==
    /\ docker.pc = "inspect again"
    /\ \E out \in InspectOutcomes(docker.images, DockerTag(docker.tagList[docker.n])) :
           docker' = InspectedAgain(docker, out)
    /\ DockerOthersUnchanged

\* lines 121-142
Parsed(d) ==
    IF d.out # "manifests"
    THEN [d EXCEPT !.pc = "raised", !.err = "Docker did not properly materialize"]
    ELSE Entered([d EXCEPT !.containersList =
                               Append(@, Container(d.tagList[d.n], DockerTag(d.tagList[d.n]),
                                                   ManifestOf(DockerTag(d.tagList[d.n]))))],
                 d.n + 1)

ParseManifest ==
    /\ docker.pc = "parse"
    /\ docker' = Parsed(docker)
    /\ DockerOthersUnchanged

NextDocker == StartMaterialize \/ InspectTag \/ PullTag \/ InspectAgain \/ ParseManifest

SpecDocker == Init /\ [][NextDocker]_vars

(***************************************************************************)
(* doMaterializeRepo step by step: two calls in progress on one cache      *)
(* directory.  A call is at one of its system calls or subprocesses:       *)
(* "make repo dir" (line 391), "check slot" (398), "clone" (425, about to  *)
(* start), "cloning" (425, running), "checkout" (428), "submodule" (432),  *)
(* "rev-parse" (452).                                                      *)
(***************************************************************************)
Count(f, k) == IF k \in DOMAIN f THEN f[k] ELSE 0
Members(f, k) == IF k \in DOMAIN f THEN f[k] ELSE {}
Put(f, k, v) == (k :> v) @@ f
Without(f, k) == [x \in DOMAIN f \ {k} |-> f[x]]

SlotOfProc(p) == RepoTagDestdir(RaceURL, cloning.procs[p].tag)

\* the steps of line 398 on: the clone runs unless the slot is there
CloneNeededAlways(cache, slot) == TRUE
CloneNeeded(cache, slot) == ~SlotExists(cache, slot)

At(p, pc) == [cloning EXCEPT !.procs[p].pc = pc]
Raised(c, p, err) == [c EXCEPT !.procs[p].pc = "idle", !.procs[p].last = <<"raised", err>>]
Returned(c, p, rev) == [c EXCEPT !.procs[p].pc = "idle", !.procs[p].last = <<"returned", rev>>]

OthersUnchanged ==
    UNCHANGED <<repoLog, inputCache, schemeHandlers, handlerCalls, fetchLog, run, roCrateCache,
                ask, resolved, fs, wf, runs, docker>>

\* lines 384-389: the call starts; sequentially, only when no other call runs
BeginCall(p) ==
    /\ cloning.procs[p].pc = "idle"
    /\ cloning.procs[p].calls < MaxCloneCalls
    /\ cloning.mode = "sequential" => \A q \in Procs : cloning.procs[q].pc = "idle"
    /\ \E tag \in RaceTags, git \in RaceGits :
           cloning' = [cloning EXCEPT
                           !.procs[p] = [pc |-> IF RepoHashedId(RaceURL) \in wfCache.dirs
                                                THEN "check slot" ELSE "make repo dir",
                                         tag |-> tag, git |-> git, calls |-> @.calls + 1,
                                         last |-> <<"none", None>>]]
    /\ UNCHANGED wfCache
    /\ OthersUnchanged

\* lines 390-394: os.makedirs(repo_destdir) raises when the directory is
\* there by now, and the OSError is reported as a WFException
MakeRepoDir(p) ==
    /\ cloning.procs[p].pc = "make repo dir"
    /\ IF RepoHashedId(RaceURL) \in wfCache.dirs
       THEN /\ cloning' = Raised(cloning, p, "Unable to create intermediate directories")
            /\ UNCHANGED wfCache
       ELSE /\ cloning' = At(p, "check slot")
            /\ wfCache' = [wfCache EXCEPT !.dirs = @ \cup {RepoHashedId(RaceURL)}]
    /\ OthersUnchanged

\* line 398
CheckSlot(p) ==
    /\ cloning.procs[p].pc = "check slot"
    /\ cloning' = At(p, IF CloneNeeded(wfCache, SlotOfProc(p)) THEN "clone" ELSE "rev-parse")
    /\ UNCHANGED wfCache
    /\ OthersUnchanged

Started(c, p, slot) ==
    [c EXCEPT !.procs[p].pc = "cloning",
              !.starts = Put(@, slot, Count(@, slot) + 1),
              !.inflight = Put(@, slot, Members(@, slot) \cup {p}),
              !.duplicated = IF Members(c.inflight, slot) # {} THEN @ \cup {slot} ELSE @]

\* line 425, the clone process starts: it makes the slot directory; when
\* the directory is already there git refuses it (exit code 128) unless it
\* is still empty, as it may be while another clone is starting in it
CloneStart(p) ==
    /\ cloning.procs[p].pc = "clone"
    /\ IF SlotOfProc(p) \in DOMAIN wfCache.slots
       THEN \/ /\ cloning' = Raised([cloning EXCEPT !.starts = Put(@, SlotOfProc(p),
                                                       Count(@, SlotOfProc(p)) + 1)],
                                    p, "Unable to pull")
               /\ UNCHANGED wfCache
            \/ /\ Members(cloning.inflight, SlotOfProc(p)) # {}
               /\ cloning' = Started(cloning, p, SlotOfProc(p))
               /\ UNCHANGED wfCache
       ELSE /\ cloning' = Started(cloning, p, SlotOfProc(p))
            /\ wfCache' = [wfCache EXCEPT !.slots = Put(@, SlotOfProc(p), NoHead)]
    /\ OthersUnchanged

Finished(c, p, slot) == [c EXCEPT !.inflight = Put(@, slot, Members(@, slot) \ {p})]

\* the heads a finished clone may leave: its own, or none when another clone
\* wrote into the same directory
HeadsAfterClone(p, slot) ==
    IF slot \in cloning.duplicated
    THEN {cloning.procs[p].git.defaultCommit, NoHead}
    ELSE {cloning.procs[p].git.defaultCommit}

\* line 425, the clone process ends; a failed clone removes the directory
\* unless it was killed
CloneEnd(p) ==
    /\ cloning.procs[p].pc = "cloning"
    /\ IF cloning.procs[p].git.cloneRc = 0
       THEN /\ \E head \in HeadsAfterClone(p, SlotOfProc(p)) :
                   wfCache' = [wfCache EXCEPT !.slots = Put(@, SlotOfProc(p), head)]
            /\ cloning' = [Finished(cloning, p, SlotOfProc(p)) EXCEPT
                               !.procs[p].pc = IF cloning.procs[p].tag # None
                                               THEN "checkout" ELSE "submodule"]
       ELSE IF cloning.procs[p].git.cloneLeavesDir \/ SlotOfProc(p) \notin DOMAIN wfCache.slots
       THEN /\ cloning' = Raised(Finished(cloning, p, SlotOfProc(p)), p, "Unable to pull")
            /\ UNCHANGED wfCache
       ELSE /\ cloning' = Raised([Finished(cloning, p, SlotOfProc(p)) EXCEPT
                                      !.removed = Put(@, SlotOfProc(p),
                                                      Count(@, SlotOfProc(p)) + 1)],
                                 p, "Unable to pull")
            /\ wfCache' = [wfCache EXCEPT !.slots = Without(@, SlotOfProc(p))]
    /\ OthersUnchanged

\* lines 427-429: Popen(cwd=repo_tag_destdir) raises when the directory is gone
Checkout(p) ==
    /\ cloning.procs[p].pc = "checkout"
    /\ IF SlotOfProc(p) \notin DOMAIN wfCache.slots
       THEN /\ cloning' = Raised(cloning, p, "FileNotFoundError")
            /\ UNCHANGED wfCache
       ELSE IF cloning.procs[p].git.checkoutRc # 0
       THEN /\ cloning' = Raised(cloning, p, "Unable to pull")
            /\ UNCHANGED wfCache
       ELSE /\ cloning' = At(p, "submodule")
            /\ wfCache' = AfterCheckout(wfCache, SlotOfProc(p), cloning.procs[p].git)
    /\ OthersUnchanged

\* lines 431-445
Submodule(p) ==
    /\ cloning.procs[p].pc = "submodule"
    /\ cloning' = IF SlotOfProc(p) \notin DOMAIN wfCache.slots
                  THEN Raised(cloning, p, "FileNotFoundError")
                  ELSE IF cloning.procs[p].git.submoduleRc # 0
                  THEN Raised(cloning, p, "Unable to pull")
                  ELSE At(p, "rev-parse")
    /\ UNCHANGED wfCache
    /\ OthersUnchanged

\* lines 448-456
RevParse(p) ==
    /\ cloning.procs[p].pc = "rev-parse"
    /\ cloning' = IF SlotOfProc(p) \notin DOMAIN wfCache.slots
                  THEN Raised(cloning, p, "FileNotFoundError")
                  ELSE Returned(cloning, p, RevParseHead(wfCache, SlotOfProc(p)))
    /\ UNCHANGED wfCache
    /\ OthersUnchanged

InitClone ==
    /\ RepoInit /\ FetchInit /\ RunInit /\ ResolveInit /\ WFInit /\ RunsInit
    /\ cloning \in {NoCloning("sequential"), NoCloning("concurrent")}
    /\ docker = NoDocker

NextClone ==
    \E p \in Procs :
        \/ BeginCall(p)
        \/ MakeRepoDir(p)
        \/ CheckSlot(p)
        \/ CloneStart(p)
        \/ CloneEnd(p)
        \/ Checkout(p)
        \/ Submodule(p)
        \/ RevParse(p)

SpecClone == InitClone /\ [][NextClone]_vars

(***************************************************************************)
(* Two runs on one workDir and one cache: construction and the staging     *)
(* loop of fetchInputs, step by step                                       *)
(***************************************************************************)
SharedCacheDir == <<"c1">>
SharedWorkDir == <<"w1">>
RunUrlSeqs == {<<Ua>>, <<Uda>>, <<Ua, Uda>>, <<Ua, Ua>>}

RunsOthersUnchanged ==
    UNCHANGED <<wfCache, repoLog, schemeHandlers, handlerCalls, fetchLog, run, roCrateCache,
                ask, resolved, wf, cloning,
                docker>>

\* WF.__init__ of run p, its params being one File node with the URLs urls
ConstructRun(p) ==
    /\ runs.inst[p].pc = "none"
    /\ \E id \in InstanceIds, urls \in RunUrlSeqs :
           /\ Append(SharedWorkDir, id) \notin fs
           /\ runs' = [runs EXCEPT
                           !.inst[p] = [NoInstance EXCEPT
                                            !.pc = "ready", !.urls = urls,
                                            !.dirs = InstanceDirs(SharedCacheDir,
                                                                  SharedWorkDir, id)]]
           /\ fs' = MakeAll(fs, MadeByInit(InstanceDirs(SharedCacheDir, SharedWorkDir, id)))
    /\ UNCHANGED inputCache
    /\ RunsOthersUnchanged

\* what downloadInputFile did, d, seen from the loop of run p
AfterFetchStep(i, d) ==
    IF d.ok
    THEN [i EXCEPT !.pc = "fetched", !.content = d.content, !.urls = Tail(@)]
    ELSE [i EXCEPT !.pc = "failed", !.err = d.err]

\* lines 345-347
FetchStep(p) ==
    /\ runs.inst[p].pc = "ready" /\ runs.inst[p].urls # <<>>
    /\ \E outcome \in HandlerOutcomes :
           /\ runs' = [runs EXCEPT
                           !.inst[p] = AfterFetchStep(@, DownloadInputFile(inputCache,
                                                          schemeHandlers, runs.inst[p].urls[1],
                                                          None, outcome))]
           /\ inputCache' = DownloadInputFile(inputCache, schemeHandlers, runs.inst[p].urls[1],
                                              None, outcome).cache
    /\ UNCHANGED fs
    /\ RunsOthersUnchanged

\* the inputs directory dir as the walk reads it: name -> link target
DirView(links, dir) ==
    [name \in {k.name : k \in {x \in DOMAIN links : x.dir = dir}} |->
        links[[dir |-> dir, name |-> name]].target]

WorldOf(p) == [dir |-> DirView(runs.links, runs.inst[p].dirs.inputsDir), cache |-> inputCache]

\* lines 350-355
NameStep(p) ==
    /\ runs.inst[p].pc = "fetched"
    /\ runs' = [runs EXCEPT
                    !.inst[p].pc = "named",
                    !.inst[p].lastInput = @ + 1,
                    !.inst[p].local = PrettyLocal(WorldOf(p), runs.inst[p].lastInput + 1,
                                                  runs.inst[p].content.prettyFilename),
                    !.inst[p].events =
                        Append(@, [pretty |-> runs.inst[p].content.prettyFilename,
                                   existed |-> PathExists(WorldOf(p),
                                                   runs.inst[p].content.prettyFilename),
                                   local |-> <<>>, created |-> FALSE])]
    /\ UNCHANGED <<fs, inputCache>>
    /\ RunsOthersUnchanged

LinkKey(p) == [dir |-> runs.inst[p].dirs.inputsDir, name |-> runs.inst[p].local]

Linked(i, created) ==
    [i EXCEPT !.pc = IF ~created THEN "failed" ELSE IF i.urls = <<>> THEN "done" ELSE "ready",
              !.err = IF created THEN None ELSE "FileExistsError",
              !.events[Len(i.events)].local = i.local,
              !.events[Len(i.events)].created = created]

\* lines 356-358: os.symlink raises when the name is there
LinkStep(p) ==
    /\ runs.inst[p].pc = "named"
    /\ runs' = [runs EXCEPT
                    !.inst[p] = Linked(@, LinkKey(p) \notin DOMAIN runs.links),
                    !.links = IF LinkKey(p) \in DOMAIN @ THEN @
                              ELSE Put(@, LinkKey(p), [target |-> runs.inst[p].content.local,
                                                       by |-> p])]
    /\ UNCHANGED <<fs, inputCache>>
    /\ RunsOthersUnchanged

NextRuns == \E p \in Procs : ConstructRun(p) \/ FetchStep(p) \/ NameStep(p) \/ LinkStep(p)

SpecRuns == Init /\ [][NextRuns]_vars

(***************************************************************************)
(* Claims about the repository cache                                       *)
(***************************************************************************)
SamePair(a, b) == a.url = b.url /\ a.tag = b.tag

\* C1: two doMaterializeRepo calls in succession for the same (url,
\* revision), the first of which returned, return the same directory and the
\* same effectiveRevision, and the second one runs the revision query only
\* (no clone, no checkout, no submodule update).
C1_MaterializeRepoIdempotent ==
    (Len(repoLog) = 2 /\ SamePair(repoLog[1], repoLog[2]) /\ repoLog[1].ok)
        => /\ repoLog[2].ok
           /\ repoLog[2].dir = repoLog[1].dir
           /\ repoLog[2].rev = repoLog[1].rev
           /\ repoLog[2].ops = <<"rev-parse">>

\* A fresh clone with checkout, followed by a second call for the same pair.
C1_Witness ==
    /\ Len(repoLog) = 2
    /\ SamePair(repoLog[1], repoLog[2])
    /\ repoLog[1].ok
    /\ repoLog[1].ops = <<"clone -n", "checkout", "submodule update", "rev-parse">>
    /\ repoLog[2].ok
    /\ repoLog[2].rev = "c2"

(***************************************************************************)
(* Claims about the input cache                                            *)
(***************************************************************************)
\* C2 (as stated): over any sequence of downloadInputFile calls the scheme
\* handler is invoked at most once per URI.
C2_HandlerAtMostOncePerURI == \A u \in URIs : handlerCalls[u] <= 1

\* C2 (amended): once the cache holds a file for a URI, no later
\* downloadInputFile call invokes the scheme handler for that URI.
C2_NoHandlerOnceCached ==
    [][\A u \in URIs :
         Sha1(u) \in DOMAIN inputCache => handlerCalls'[u] = handlerCalls[u]]_vars

\* A URI that was fetched by one handler invocation and then asked for again.
C2_Witness ==
    /\ fetchLog # <<>>
    /\ fetchLog[1].ok /\ ~fetchLog[1].handlerCalled
    /\ handlerCalls[fetchLog[1].uri] = 1
    /\ inputCache[Sha1(fetchLog[1].uri)] = "complete"

(***************************************************************************)
(* Claims about the input walk                                             *)
(***************************************************************************)
Walked == run.phase = "materialized"

\* the names of the references created by the first n staging events
CreatedBefore(events, n) ==
    {events[j].local : j \in {i \in 1..(n - 1) : events[i].created}}

\* C3: in a walk into an initially empty inputs directory every fetched URL
\* is staged under a name that is not yet present in the directory, and no
\* two references share a local path.
C3_StagingNeverCollides ==
    Walked =>
        LET ev == run.walk.events
        IN /\ \A i \in DOMAIN ev : ev[i].local \notin CreatedBefore(ev, i)
           /\ \A i, j \in DOMAIN ev : i # j => ev[i].local # ev[j].local

\* C4: the i-th fetched URL of a walk is staged, under its display name when
\* that name is free and under '<i>_<name>' when it is taken; so of two URLs
\* with the same display name both are staged, the second one under the
\* prefixed name.
C4_RenamedWithCounter ==
    Walked =>
        LET ev == run.walk.events
        IN \A i \in DOMAIN ev :
              LET taken == ev[i].pretty = <<>> \/ ev[i].pretty \in CreatedBefore(ev, i)
              IN /\ ev[i].created
                 /\ ev[i].local \in DOMAIN run.inputsDir
                 /\ ev[i].local = IF taken
                                  THEN PyStrOfInt(i) \o <<"_">> \o ev[i].pretty
                                  ELSE ev[i].pretty
                 /\ \A j \in 1..(i - 1) :
                       ev[j].pretty = ev[i].pretty
                           => ev[i].local = PyStrOfInt(i) \o <<"_">> \o ev[i].pretty

\* the File-class nodes that are values of the mapping or of the untagged
\* mappings nested in it, each with its dotted key
RECURSIVE FileNodesOf(_, _)
FileNodesOf(entries, prefix) ==
    IF entries = <<>> THEN {}
    ELSE LET node == entries[1].v
             name == prefix \o entries[1].k
             cls == DictGet(node, ClassKey)
             here == IF node.kind # "dict" THEN {}
                     ELSE IF cls = PyStr(<<"File">>)
                          THEN {[name |-> name, url |-> DictGet(node, UrlKey)]}
                     ELSE IF cls.kind = "none"
                          THEN FileNodesOf(node.items, name \o <<".">>)
                     ELSE {}
         IN here \cup FileNodesOf(Tail(entries), prefix)

\* the URLs a url field declares, in order
DeclaredUrls(urlNode) ==
    IF urlNode.kind = "list"
    THEN [i \in DOMAIN urlNode.items |-> urlNode.items[i].v.s]
    ELSE <<urlNode.s>>

\* C5: when fetchInputs returns, every File-class node with k declared URLs
\* has exactly one MaterializedInput, named by the node's dotted key, whose
\* values are k MaterializedContent in the order of the URLs, each with its
\* own source URI.
C5_OneInputPerFileNode ==
    (Walked /\ run.walk.ok) =>
        \A f \in FileNodesOf(run.params.items, <<>>) :
            LET ins == run.walk.theInputs
                at == {i \in DOMAIN ins : ins[i].name = f.name}
                urls == DeclaredUrls(f.url)
            IN /\ Cardinality(at) = 1
               /\ \A i \in at :
                     /\ Len(ins[i].values) = Len(urls)
                     /\ \A j \in DOMAIN urls : ins[i].values[j].uri = urls[j]

\* A File node with a list of three URLs and one with a single, unwrapped
\* URL, both materialized.
C5_Witness ==
    /\ Walked /\ run.walk.ok
    /\ \E f \in FileNodesOf(run.params.items, <<>>) : Len(DeclaredUrls(f.url)) = MaxUrls
    /\ Len(run.walk.theInputs[1].values) = MaxUrls
    /\ run.walk.theInputs[1].values[2].uri = U3a

C5_WitnessSingle ==
    /\ Walked /\ run.walk.ok
    /\ \E f \in FileNodesOf(run.params.items, <<>>) : f.url.kind = "str"
    /\ Len(run.walk.theInputs) = 1

\* a mapping with a non-null class tag other than "File", anywhere in the tree
RECURSIVE HasNonFileClass(_)
HasNonFileClass(node) ==
    \/ /\ node.kind = "dict"
       /\ DictGet(node, ClassKey).kind # "none"
       /\ DictGet(node, ClassKey) # PyStr(<<"File">>)
    \/ \E i \in DOMAIN node.items : HasNonFileClass(node.items[i].v)

\* Pre-order scan of a mapping and of the untagged mappings nested in it, up
\* to the first mapping with a non-null class tag other than "File":
\* [found, urls], urls being the number of File URLs declared before it.
RECURSIVE ScanToUnrecognized(_)
ScanToUnrecognized(entries) ==
    IF entries = <<>> THEN [found |-> FALSE, urls |-> 0]
    ELSE LET node == entries[1].v
             cls == DictGet(node, ClassKey)
             here == IF node.kind # "dict" THEN [found |-> FALSE, urls |-> 0]
                     ELSE IF cls.kind = "none" THEN ScanToUnrecognized(node.items)
                     ELSE IF cls = PyStr(<<"File">>)
                          THEN [found |-> FALSE,
                                urls |-> Len(DeclaredUrls(DictGet(node, UrlKey)))]
                     ELSE [found |-> TRUE, urls |-> 0]
             rest == ScanToUnrecognized(Tail(entries))
         IN IF here.found THEN here
            ELSE [found |-> rest.found, urls |-> here.urls + rest.urls]

NumCreated == Cardinality({i \in DOMAIN run.walk.events : run.walk.events[i].created})

\* C6 (as stated): a tree that holds, at any depth, a mapping whose class
\* tag is a value other than 'File' makes fetchInputs fail with the
\* unrecognized-input-class error.
C6_AnyNonFileClassIsFatal ==
    (Walked /\ HasNonFileClass(run.params))
        => (~run.walk.ok /\ run.walk.err = "Unrecognized input class")

\* C6 (amended): when such a mapping is the value of a key of the parameter
\* mapping or of untagged mappings nested in it, fetchInputs returns no
\* result; its error is the unrecognized-input-class error exactly when all
\* the File URLs declared before that mapping were fetched and staged.
C6_ReachedNonFileClassIsFatal ==
    (Walked /\ ScanToUnrecognized(run.params.items).found)
        => /\ ~run.walk.ok
           /\ run.walk.theInputs = <<>>
           /\ (run.walk.err = "Unrecognized input class")
                  <=> (NumCreated = ScanToUnrecognized(run.params.items).urls)

\* An unrecognized class two mappings deep, met after a File node was staged.
C6_Witness ==
    /\ Walked
    /\ ScanToUnrecognized(run.params.items).found
    /\ ScanToUnrecognized(run.params.items).urls = 2
    /\ run.params.items[1].v.kind = "dict"
    /\ DictGet(run.params.items[1].v, ClassKey).kind = "none"
    /\ run.walk.err = "Unrecognized input class"
    /\ NumCreated = 2


(***************************************************************************)
(* Registry and packaging resolution                                       *)
(***************************************************************************)
ViaTRS == ask.kind = "TRS" /\ resolved.trace # <<>>

ViaROCrate == ask.kind = "ROCrate" /\ resolved.trace # <<>>

Took(step) == \E i \in DOMAIN resolved.trace : resolved.trace[i] = step

\* C7: a registry resolution whose manifest's toolclass.name is not
\* 'Workflow' fails, and it fails with nothing run after the class check: no
\* version selection, no descriptor-type selection, no download of the
\* packaging archive.
C7_NonWorkflowFailsFirst ==
    (ViaTRS /\ ask.toolDesc.toolclass # "Workflow")
        => /\ ~resolved.ok
           /\ resolved.err = "not labelled as a workflow"
           /\ ~Took("version selection")
           /\ ~Took("descriptor selection")
           /\ ~Took("crate download")

\* A manifest of class 'Tool' that otherwise resolves (its only version lists
\* CWL, nothing is cached) has been refused.
C7_Witness ==
    /\ ViaTRS
    /\ ask.toolDesc.toolclass = "Tool"
    /\ ask.toolDesc.versions = <<[id |-> <<"2">>, desc |-> ListDesc(<<"CWL">>)]>>
    /\ ask.version_id = <<"2">> /\ ask.descriptor_type = "CWL"
    /\ ask.outcome = "ok" /\ roCrateCache = EmptyFn
    /\ ~resolved.ok /\ resolved.trace = <<"class check">>

\* the version the resolution selected, when it got that far
SelectedToolVersion == ask.toolDesc.versions[resolved.version]

DescriptorTypeErrors ==
    {"Descriptor type not available", "Descriptor type is not among the acknowledged ones",
     "no valid descriptor_type", "no acknowledged descriptor_type"}

\* C8: once a version is selected, a pinned descriptor type that the known
\* registry lacks, or that the selected version does not list, makes the
\* resolution fail with a descriptor-type error and without a download of
\* the packaging archive.
C8_PinnedDescriptorRefused ==
    (/\ ViaTRS /\ Took("descriptor selection")
     /\ ask.descriptor_type # None
     /\ \/ ~IsRecognizedDescriptor(ask.descriptor_type)
        \/ ~Listed(ToolDescriptorTypes(SelectedToolVersion), ask.descriptor_type))
        => /\ ~resolved.ok
           /\ resolved.err \in DescriptorTypeErrors
           /\ ~Took("crate download")

\* the segments of a raw URL scheme://host/seg1/.../segk
SegmentsOf(raw) == Tail(Split(SubSeq(raw, 4, Len(raw)), "/"))

EndsWithGit(seg) == seg # <<>> /\ seg[Len(seg)] = ".git"

\* owner/repo[/...] with no empty segment
OwnerRepoForm(segs) == Len(segs) >= 2 /\ \A i \in DOMAIN segs : segs[i] # <<>>

BlobFollows(segs) == Len(segs) >= 4 /\ segs[3] = <<"blob">>

ExpectedRepo(segs) ==
    [repoURL |-> RawUrl("https", "github.com",
                        <<segs[1], IF EndsWithGit(segs[2]) THEN segs[2]
                                   ELSE segs[2] \o <<".git">>>>),
     repoTag |-> IF BlobFollows(segs) THEN segs[4] ELSE NoneStr,
     repoRelPath |-> IF BlobFollows(segs) /\ Len(segs) >= 5
                     THEN Join(SubSeq(segs, 5, Len(segs)), "/") ELSE NoneStr]

\* the call got as far as reading isBasedOn, an https URL on github.com
GuessedOnGitHub ==
    /\ ViaROCrate /\ Took("repository guess")
    /\ Len(ask.crate.isBasedOn) >= 3
    /\ SubSeq(ask.crate.isBasedOn, 1, 3) = <<"https", "://", "github.com">>

\* C9: for a source URL https://github.com/owner/repo[/blob/rev[/path...]]
\* the call returns repoURL = https://github.com/owner/repo.git with the
\* suffix there exactly once, the revision = rev when 'blob' follows the repo
\* and absent otherwise, and the relative path = the segments after rev joined
\* by '/' when there are any and absent otherwise.
C9_GitHubDerivation ==
    (GuessedOnGitHub /\ OwnerRepoForm(SegmentsOf(ask.crate.isBasedOn)))
        => /\ resolved.ok
           /\ resolved.repo = ExpectedRepo(SegmentsOf(ask.crate.isBasedOn))

\* owner/repo.git/blob/rev/p1/p2 has been resolved: suffix kept as it is, a
\* revision and a two-segment relative path.
C9_Witness ==
    /\ GuessedOnGitHub
    /\ SegmentsOf(ask.crate.isBasedOn)
           = <<<<"o">>, <<"r", ".git">>, <<"blob">>, <<"o">>, <<"o">>, <<"blob">>>>
    /\ resolved.ok
    /\ resolved.repo = [repoURL |-> <<"https", "://", "github.com", "/", "o", "/", "r", ".git">>,
                        repoTag |-> <<"o">>,
                        repoRelPath |-> <<"o", "/", "blob">>]

\* C10: a call that returns has a repoURL; a source URL on another host or
\* with a path too short for owner and repo ends in the cannot-guess error.
C10_NeverReturnsWithoutRepoURL ==
    (ViaROCrate /\ Took("repository guess"))
        => IF /\ Len(ask.crate.isBasedOn) >= 3
              /\ SubSeq(ask.crate.isBasedOn, 2, 3) = <<"://", "github.com">>
              /\ Len(SegmentsOf(ask.crate.isBasedOn)) >= 2
           THEN resolved.ok /\ resolved.repo.repoURL # NoneStr
           ELSE ~resolved.ok /\ resolved.err = "Unable to guess repository"


(***************************************************************************)
(* Claims about the version-control steps and the slot                     *)
(***************************************************************************)
Calls == {repoLog[i] : i \in DOMAIN repoLog}

SomeStepFailed(c) == \E i \in DOMAIN c.rcs : c.rcs[i] # 0

\* C11: a doMaterializeRepo call in which any version-control step (clone,
\* checkout, submodule update, rev-parse of HEAD) exits with a non-zero code
\* fails with the reported error instead of returning.
C11_EveryStepMustExitZero ==
    \A c \in Calls : SomeStepFailed(c) => (~c.ok /\ c.err = "Unable to pull")

\* C12: the effectiveRevision of every doMaterializeRepo call that returns
\* is a concrete, non-empty commit hash.
C12_EffectiveRevisionConcrete ==
    \A c \in Calls : c.ok => (c.rev \in Commits /\ c.rev # NoHead)

\* the revision as the slot path reads it: absent is the empty string
SlotRevision(tag) == IF tag = None THEN "" ELSE tag

\* C13: two doMaterializeRepo calls that return give the same slot exactly
\* when their urls are equal and their revisions are equal, an absent
\* revision counting as the empty string; the slot is the two-level path
\* hash(url)/hash(revision), whatever the cache held before.
C13_SlotIsFunctionOfPair ==
    \A c \in Calls, d \in Calls :
        (c.ok /\ d.ok)
            => /\ (c.dir = d.dir) <=> (c.url = d.url
                                       /\ SlotRevision(c.tag) = SlotRevision(d.tag))
               /\ c.dir = <<Sha1(c.url), Sha1(SlotRevision(c.tag))>>

\* A call with an absent revision and a call with the empty revision for
\* the same url have returned, and so have two calls that share the url only.
C13_Witness ==
    /\ Len(repoLog) = 2
    /\ repoLog[1].ok /\ repoLog[2].ok
    /\ repoLog[1].url = repoLog[2].url
    /\ repoLog[1].tag = None /\ repoLog[2].tag = ""
    /\ repoLog[1].dir = repoLog[2].dir
    /\ \E s \in DOMAIN wfCache.slots : s[1] = Sha1(repoLog[1].url) /\ s # repoLog[1].dir


(***************************************************************************)
(* Claims about version selection and the language of the crate            *)
(***************************************************************************)
\* a manifest of class Workflow with at least one version has been resolved
PastClassCheck == ViaTRS /\ Took("version selection")

VersionIds == [i \in DOMAIN ask.toolDesc.versions |-> ask.toolDesc.versions[i].id]

\* the first manifest version whose id is v, 0 when there is none
FirstWithId(v) ==
    IF \E i \in DOMAIN VersionIds : VersionIds[i] = v
    THEN CHOOSE i \in DOMAIN VersionIds :
             VersionIds[i] = v /\ \A j \in DOMAIN VersionIds : VersionIds[j] = v => i <= j
    ELSE 0

\* version i has a non-empty id that no other id exceeds under string ordering
HasMaximalId(i) ==
    /\ i \in DOMAIN VersionIds /\ VersionIds[i] # <<>>
    /\ \A j \in DOMAIN VersionIds : ~StrLess(VersionIds[i], VersionIds[j])

VersionGiven == ask.version_id # NoneStr /\ ask.version_id # <<>>

VersionFailure == ~resolved.ok /\ resolved.version = 0 /\ ~Took("descriptor selection")

\* C14: with a version given and non-empty the resolution goes on with the
\* first manifest version whose id equals it, and fails when there is none;
\* with no version given, or an empty one, it goes on with a version whose
\* non-empty id is maximal under string ordering, and fails when no version
\* has a non-empty id.
C14_VersionSelection ==
    PastClassCheck
        => IF VersionGiven
           THEN IF FirstWithId(ask.version_id) # 0
                THEN resolved.version = FirstWithId(ask.version_id)
                ELSE VersionFailure
           ELSE IF \E i \in DOMAIN VersionIds : VersionIds[i] # <<>>
                THEN HasMaximalId(resolved.version)
                ELSE VersionFailure

KnownEngineURIs == {CWLType.uri, NextflowType.uri}

\* the descriptor tag of the engine whose name is n
TagOfEngine(n) ==
    CASE n = CWLType.engineName -> CWLType.trs_descriptor
      [] n = NextflowType.engineName -> NextflowType.trs_descriptor
      [] OTHER -> None

\* the uri of the engine whose name is n
UriOfEngine(n) ==
    CASE n = CWLType.engineName -> CWLType.uri
      [] n = NextflowType.engineName -> NextflowType.uri
      [] OTHER -> None

\* the engine URI the caller expects of the crate, None when it expects none
ExpectedURI ==
    IF ask.kind = "ROCrate" THEN ask.expected
    ELSE CASE resolved.descriptor = CWLType.trs_descriptor -> CWLType.uri
           [] resolved.descriptor = NextflowType.trs_descriptor -> NextflowType.uri
           [] OTHER -> None

\* C15: a packaging phase that succeeds found a ComputerLanguage identifier
\* that is a known engine URI and, where the caller expected one, is that
\* one, and it returns the engine of that URI: a registry resolution that
\* succeeds returns the engine whose descriptor tag is the descriptor type it
\* chose.  A crate that is opened and has no ComputerLanguage entity, an
\* unknown identifier or another one than expected makes the call fail.
C15_LanguageDecidesEngine ==
    (ViaTRS \/ ViaROCrate)
        => /\ resolved.ok
                => /\ ask.crate.lang \in KnownEngineURIs
                   /\ UriOfEngine(resolved.engine) = ask.crate.lang
                   /\ ExpectedURI # None => ask.crate.lang = ExpectedURI
                   /\ ViaTRS => /\ resolved.descriptor # None
                                /\ TagOfEngine(resolved.engine) = resolved.descriptor
           /\ (/\ Took("language check")
               /\ \/ ask.crate.lang \notin KnownEngineURIs
                  \/ ExpectedURI # None /\ ask.crate.lang # ExpectedURI)
                => /\ ~resolved.ok
                   /\ resolved.err \in
                          {"programming language is not among the acknowledged ones",
                           "Expected programming language does not match"}
                   /\ ~Took("repository guess")

\* A registry resolution that chose NFL, the first recognized type listed,
\* and whose crate declares the Nextflow language, has succeeded.
C15_Witness ==
    /\ ViaTRS /\ resolved.ok
    /\ ask.descriptor_type = None
    /\ resolved.descriptor = "NFL"
    /\ resolved.engine = "nextflow"
    /\ SelectedToolVersion.desc.types = <<"CWL", "NFL">>


(***************************************************************************)
(* Claims about the directories of an instance                             *)
(***************************************************************************)
CacheDirsExist ==
    /\ wf.dirs.cacheWorkflowDir \in fs
    /\ wf.dirs.cacheROCrateDir \in fs
    /\ wf.dirs.cacheWorkflowInputsDir \in fs

\* C20: once a WF instance is constructed, workDir/{instanceId} exists with
\* its four subdirectories inputs, intermediate, outputs and engineTweaks, and
\* wf-cache, ro-crate-cache and wf-inputs exist under cacheDir.
C20_DirectoriesExist ==
    wf.phase = "constructed"
        => /\ wf.dirs.workDir \in fs
           /\ wf.dirs.inputsDir \in fs
           /\ wf.dirs.intermediateDir \in fs
           /\ wf.dirs.outputsDir \in fs
           /\ wf.dirs.engineTweaksDir \in fs
           /\ CacheDirsExist
           /\ wf.dirs.cacheWorkflowDir = Append(wf.dirs.cacheDir, "wf-cache")
           /\ wf.dirs.engineTweaksDir = Append(wf.dirs.workDir, "engineTweaks")


(***************************************************************************)
(* Claims about engine dispatch                                            *)
(***************************************************************************)
FetchRan == ask.kind = "WF" /\ wf.phase \in {"fetched", "fetch failed"}

Reached(step) == \E i \in DOMAIN wf.steps : wf.steps[i] = step

\* the names of the registered engines, in registration order
EngineNames == <<NextflowType.engineName, CWLType.engineName>>

\* what the engine named n answers in this run when asked
VersionGivenBy(n) == IF n = CWLType.engineName THEN ask.engines.cwlVer ELSE ask.engines.nfVer

\* the resolver pinned an engine: the one of the crate's language, when the
\* id went through the registry
PinnedEngine ==
    IF ~Reached("getWorkflowRepoFromTRS") THEN None
    ELSE IF ask.crate.lang = CWLType.uri THEN CWLType.engineName
    ELSE NextflowType.engineName

\* the first registered engine that answers a version, 0 when none does
FirstRecognizing ==
    IF \E i \in DOMAIN EngineNames : VersionGivenBy(EngineNames[i]) # None
    THEN CHOOSE i \in DOMAIN EngineNames :
             /\ VersionGivenBy(EngineNames[i]) # None
             /\ \A j \in 1..(i - 1) : VersionGivenBy(EngineNames[j]) = None
    ELSE 0

SelectedEngine(n) ==
    /\ wf.phase = "fetched"
    /\ wf.f.engineDesc = n
    /\ wf.f.engineVer = VersionGivenBy(n)

\* C16 (pinned): only the pinned engine is asked, and its answering None
\* makes fetchWorkflow fail.
PinnedDispatch ==
    /\ wf.asked = <<PinnedEngine>>
    /\ IF VersionGivenBy(PinnedEngine) = None
       THEN wf.phase = "fetch failed" /\ wf.err = "Engine did not recognize a workflow"
       ELSE SelectedEngine(PinnedEngine)

\* C16 (not pinned): the engines are asked in registration order up to the
\* first that answers a version, which is selected; when none does,
\* fetchWorkflow fails with 'No engine recognized a workflow'.
OrderedDispatch ==
    IF FirstRecognizing # 0
    THEN /\ wf.asked = SubSeq(EngineNames, 1, FirstRecognizing)
         /\ SelectedEngine(EngineNames[FirstRecognizing])
    ELSE /\ wf.asked = EngineNames
         /\ wf.phase = "fetch failed" /\ wf.err = "No engine recognized a workflow"

\* C16: engine dispatch in fetchWorkflow, once the repository is
\* materialized: the pinned engine alone when the resolver pinned one, the
\* registered engines in order up to the first that recognizes otherwise.
C16_EngineDispatch ==
    (FetchRan /\ Reached("identify engine"))
        => IF PinnedEngine # None THEN PinnedDispatch ELSE OrderedDispatch


(***************************************************************************)
(* Claims about URI validation and scheme dispatch                         *)
(***************************************************************************)
Called == fetchLog # <<>> /\ "handlers" \in DOMAIN fetchLog[1]

\* the string has no "scheme://", or nothing between "://" and the next
\* "/", or nothing from that "/" on
LacksPart(uri) ==
    \/ Len(uri) < 2 \/ uri[2] # "://"
    \/ Len(uri) < 3 \/ uri[3] = "/"
    \/ ~\E i \in 4..Len(uri) : uri[i] = "/"

WrittenScheme(uri) == <<uri[1]>>

\* C18: schemeHandlers is keyed by lowercased schemes; a call that invokes a
\* handler invokes the one registered for the URI's scheme lowercased; a
\* call for a valid URI that is not cached and whose lowercased scheme has
\* no handler fails as such, invokes nothing and leaves no cache entry.
C18_LowercasedSchemeDispatch ==
    /\ \A scheme \in DOMAIN schemeHandlers : Lower(scheme) = scheme
    /\ (Called /\ fetchLog[1].handlerCalled)
           => /\ Lower(WrittenScheme(fetchLog[1].uri)) \in DOMAIN fetchLog[1].handlers
              /\ fetchLog[1].handler
                     = fetchLog[1].handlers[Lower(WrittenScheme(fetchLog[1].uri))]
    /\ (/\ Called /\ ~LacksPart(fetchLog[1].uri)
        /\ Lower(WrittenScheme(fetchLog[1].uri)) \notin DOMAIN fetchLog[1].handlers)
           => /\ ~fetchLog[1].ok
              /\ fetchLog[1].err = "no scheme handler"
              /\ ~fetchLog[1].handlerCalled
              /\ Sha1(fetchLog[1].uri) \notin DOMAIN inputCache
    /\ (/\ Called /\ ~LacksPart(fetchLog[1].uri)
        /\ Lower(WrittenScheme(fetchLog[1].uri)) \in DOMAIN fetchLog[1].handlers
        /\ fetchLog[1].context = None /\ fetchLog[1].steps # <<"cache directory", "cache lookup">>)
           => fetchLog[1].handlerCalled

\* The handler added for 'S3' was invoked for an 's3' URI.
C18_Witness ==
    /\ Called
    /\ fetchLog[1].uri = Us3
    /\ fetchLog[1].ok /\ fetchLog[1].handlerCalled
    /\ fetchLog[1].handler = "fetchS3"
    /\ schemeHandlers[<<"https">>] = "fetchClassicURL"


(***************************************************************************)
(* Claims about the security context of a File node                        *)
(***************************************************************************)
\* the parameters are one File node for Ua that names the context c
OneNodeWithContext(c) == run.params = PyDict(<<Entry("p", FileNodeCtx(PyStr(Ua), c))>>)

\* C19: a walk over a File node that names a security context forwards the
\* context resolved from the credentials configuration to every handler it
\* invokes; when the name is not in the credentials configuration the walk
\* fails as having no such security context, whether or not the file is in
\* the cache.
C19_SecurityContextResolvedOrFatal ==
    \A c \in ContextNames \ {None} :
        (Walked /\ OneNodeWithContext(c))
            => /\ \A i \in DOMAIN run.walk.secs : run.walk.secs[i] = c /\ c \in CredsConfig
               /\ c \notin CredsConfig
                      => ~run.walk.ok /\ run.walk.err = "no security context"


(***************************************************************************)
(* Claims about the result of the input walk                               *)
(***************************************************************************)
\* keys joined by '.'
RECURSIVE DottedName(_)
DottedName(keys) ==
    IF Len(keys) = 1 THEN keys[1] ELSE keys[1] \o <<".">> \o DottedName(Tail(keys))

\* The leaves of a mapping in pre-order, each with the keys on its path:
\* a value that is no mapping, or a File node; untagged mappings are levels.
RECURSIVE LeavesOf(_, _)
LeavesOf(entries, path) ==
    IF entries = <<>> THEN <<>>
    ELSE LET node == entries[1].v
             keys == Append(path, entries[1].k)
             here == IF node.kind = "dict" /\ DictGet(node, ClassKey).kind = "none"
                     THEN LeavesOf(node.items, keys)
                     ELSE <<[keys |-> keys, node |-> node]>>
         IN here \o LeavesOf(Tail(entries), path)

\* the values of the MaterializedInput are those of the leaf
ValuesOfLeaf(values, node) ==
    CASE node.kind = "dict" -> Len(values) = Len(DeclaredUrls(DictGet(node, UrlKey)))
      [] node.kind = "list" -> values = [i \in DOMAIN node.items |-> node.items[i].v]
      [] OTHER -> values = <<node>>

\* C21: when fetchInputs returns, its result holds one MaterializedInput per
\* leaf of the parameter tree (scalar, list, or File node), in pre-order of
\* the mappings' insertion order; a scalar's values is the one-element list
\* holding it, a list's values is the list; each name is the keys on the
\* path to the leaf joined by '.', with no leading or trailing dot.
C21_OneInputPerLeafInPreOrder ==
    (Walked /\ run.walk.ok) =>
        LET leaves == LeavesOf(run.params.items, <<>>)
            ins == run.walk.theInputs
        IN /\ Len(ins) = Len(leaves)
           /\ \A i \in DOMAIN leaves :
                 /\ ins[i].name = DottedName(leaves[i].keys)
                 /\ ins[i].name[1] # "." /\ ins[i].name[Len(ins[i].name)] # "."
                 /\ ValuesOfLeaf(ins[i].values, leaves[i].node)

\* A scalar nested one level down followed by a list at the top level.
C21_Witness ==
    /\ Walked /\ run.walk.ok
    /\ Len(run.walk.theInputs) = 2
    /\ run.walk.theInputs[1].name = <<"p", ".", "q">>
    /\ run.walk.theInputs[1].values = <<Scalar>>
    /\ run.walk.theInputs[2].name = <<"r">>
    /\ run.walk.theInputs[2].values = <<Scalar, UnknownNode>>


(***************************************************************************)
(* Claims about failed and first materializations of a repository          *)
(***************************************************************************)
SlotOf(c) == <<Sha1(c.url), Sha1(SlotRevision(c.tag))>>

\* the call that a step has just added to the log
LastCall == repoLog'[Len(repoLog')]

StepsFor(tag) ==
    IF tag # None
    THEN <<"clone -n", "checkout", "submodule update", "rev-parse">>
    ELSE <<"clone", "submodule update", "rev-parse">>

\* C25: a call on an absent slot runs, in this order and each only if the
\* one before exited with 0: with a revision, clone without checkout,
\* checkout, submodule initialization, revision query; with no revision,
\* clone, submodule initialization, revision query and no checkout.
C25_StepsInOrder ==
    \A c \in Calls :
        c.ops # <<"rev-parse">> =>
            /\ Len(c.ops) \in 1..Len(StepsFor(c.tag))
            /\ c.ops = SubSeq(StepsFor(c.tag), 1, Len(c.ops))
            /\ \A i \in 2..Len(c.ops) : c.rcs[i - 1] = 0
            /\ Len(c.ops) < Len(StepsFor(c.tag)) => c.rcs[Len(c.ops)] # 0
            /\ c.tag = None => \A i \in DOMAIN c.ops : c.ops[i] # "checkout"

\* A first call with a revision ran its four steps and a first call without
\* one its three.
C25_Witness ==
    /\ Len(repoLog) = 2
    /\ repoLog[1].tag = "v1" /\ Len(repoLog[1].ops) = 4
    /\ repoLog[2].tag = None /\ Len(repoLog[2].ops) = 3


(***************************************************************************)
(* Claims about the descriptor type of a registry resolution               *)
(***************************************************************************)
\* the descriptor types of the registry, in its order
KnownDescriptors == <<NextflowType.trs_descriptor, CWLType.trs_descriptor>>

ListedBySelected(d) ==
    /\ SelectedToolVersion.desc.present /\ SelectedToolVersion.desc.isList
    /\ \E i \in DOMAIN SelectedToolVersion.desc.types : SelectedToolVersion.desc.types[i] = d

\* the selected version's descriptor_type is a list, or is absent
DescriptorTypesReadable ==
    SelectedToolVersion.desc.present => SelectedToolVersion.desc.isList

\* C26: with no descriptor type pinned, the resolution goes on with the
\* first descriptor type, in registry order, that the selected version
\* lists, and fails when it lists none of them; whenever a packaging-archive
\* URL is built, its descriptor type is listed by the selected version and
\* is in the registry.
C26_DescriptorChoice ==
    /\ (/\ ViaTRS /\ Took("descriptor selection")
        /\ ask.descriptor_type = None /\ DescriptorTypesReadable)
           => IF \E i \in DOMAIN KnownDescriptors : ListedBySelected(KnownDescriptors[i])
              THEN \E i \in DOMAIN KnownDescriptors :
                      /\ resolved.descriptor = KnownDescriptors[i]
                      /\ ListedBySelected(KnownDescriptors[i])
                      /\ \A j \in 1..(i - 1) : ~ListedBySelected(KnownDescriptors[j])
              ELSE /\ ~resolved.ok
                   /\ resolved.err = "no acknowledged descriptor_type"
                   /\ resolved.descriptor = None
    /\ (ViaTRS /\ resolved.descriptor # None)
           => /\ ListedBySelected(resolved.descriptor)
              /\ \E i \in DOMAIN KnownDescriptors : KnownDescriptors[i] = resolved.descriptor
              /\ resolved.ok
                     => Sha1(RoCrateURL(ask.id, SelectedToolVersion.id, resolved.descriptor))
                            \in DOMAIN roCrateCache

\* A version that lists CWL before NFL was resolved as NFL.
C26_Witness ==
    /\ ViaTRS /\ resolved.ok
    /\ ask.descriptor_type = None
    /\ SelectedToolVersion.desc.types = <<"CWL", "NFL">>
    /\ resolved.descriptor = "NFL"


(***************************************************************************)
(* Claims about the MaterializedContent of a File node                     *)
(***************************************************************************)
\* what follows the last '/' of a URL
RECURSIVE LastSegment(_)
LastSegment(uri) ==
    IF \E i \in DOMAIN uri : uri[i] = "/" THEN LastSegment(Tail(uri)) ELSE uri

\* the contents returned for the File nodes, each with the URL declared for it
ReturnedContents ==
    LET leaves == LeavesOf(run.params.items, <<>>)
    IN UNION {{[at |-> <<i, j>>, c |-> run.walk.theInputs[i].values[j],
                declared |-> DeclaredUrls(DictGet(leaves[i].node, UrlKey))[j]] :
                  j \in DOMAIN run.walk.theInputs[i].values} :
              i \in {k \in DOMAIN leaves : leaves[k].node.kind = "dict"}}

\* a name directly inside the inputs directory
InsideInputsDir(local) == local # <<>> /\ \A k \in DOMAIN local : local[k] # "/"

\* C27: every MaterializedContent that fetchInputs returns has a local path
\* inside the run's inputs directory that refers to the cache file keyed by
\* the digest of its source URI, the declared URL as its source URI and the
\* last path segment of that URL as its display name, renamed or not; two
\* occurrences of a URI are two references to the same cached file.
C27_ContentRefersToCache ==
    (Walked /\ run.walk.ok) =>
        /\ \A r \in ReturnedContents :
              /\ InsideInputsDir(r.c.local)
              /\ r.c.local \in DOMAIN run.inputsDir
              /\ run.inputsDir[r.c.local] = Sha1(r.c.uri)
              /\ Sha1(r.c.uri) \in DOMAIN inputCache
              /\ r.c.uri = r.declared
              /\ r.c.prettyFilename = LastSegment(r.declared)
        /\ \A r1, r2 \in ReturnedContents :
              (r1.at # r2.at /\ r1.c.uri = r2.c.uri)
                  => /\ r1.c.local # r2.c.local
                     /\ run.inputsDir[r1.c.local] = run.inputsDir[r2.c.local]

\* One File node that declares the same URL twice: the second reference is
\* renamed and keeps the display name.
C27_Witness ==
    /\ Walked /\ run.walk.ok
    /\ run.params = PyDict(<<Entry("p", FileNode(StrList(<<Ua, Ua>>)))>>)
    /\ Len(run.walk.theInputs[1].values) = 2
    /\ run.walk.theInputs[1].values[1].uri = Ua
    /\ run.walk.theInputs[1].values[2].uri = Ua
    /\ run.walk.theInputs[1].values[2].local = <<"2", "_", "a">>
    /\ run.walk.theInputs[1].values[2].prettyFilename = <<"a">>


(***************************************************************************)
(* Claims about a workflow id that is a repository URL                     *)
(***************************************************************************)
\* the id is written scheme://...
IdHasScheme == Len(ask.id) >= 2 /\ ask.id[2] = "://"

RaceSlots == {RepoTagDestdir(RaceURL, tag) : tag \in RaceTags}

Sequential == cloning.mode = "sequential"

\* C23 (as stated, sequential part): in a sequential execution the clone
\* for a slot is started at most once.
C23_CloneStartedAtMostOnce ==
    Sequential => \A slot \in RaceSlots : Count(cloning.starts, slot) <= 1

\* C23 (amended): in a sequential execution no two clones ever run in one
\* slot, and a clone is started for a slot only when every earlier clone
\* for it failed and removed its directory.
C23_SequentialClonesNeverOverlap ==
    Sequential =>
        \A slot \in RaceSlots :
            /\ slot \notin cloning.duplicated
            /\ Cardinality(Members(cloning.inflight, slot)) <= 1
            /\ Count(cloning.starts, slot) <= Count(cloning.removed, slot) + 1

\* Two concurrent calls both found the slot absent and both run a clone in
\* the same slot directory.
C23_Witness ==
    /\ ~Sequential
    /\ \A p \in Procs : cloning.procs[p].pc = "cloning"
    /\ SlotOfProc(1) = SlotOfProc(2)
    /\ SlotOfProc(1) \in cloning.duplicated
    /\ Members(cloning.inflight, SlotOfProc(1)) = Procs


(***************************************************************************)
(* Claims about two runs that share the work directory and the caches      *)
(***************************************************************************)
Started2(p) == runs.inst[p].pc # "none"

\* the directory lies in the tree of run p
InTreeOf(dir, p) ==
    /\ Len(dir) > Len(runs.inst[p].dirs.workDir)
    /\ SubSeq(dir, 1, Len(runs.inst[p].dirs.workDir)) = runs.inst[p].dirs.workDir

\* the names that run p created before its n-th staging event
OwnBefore(p, n) ==
    {runs.inst[p].events[j].local : j \in {i \in 1..(n - 1) : runs.inst[p].events[i].created}}

\* C22: two runs on one work directory root and one cache have different
\* trees workDir/{instanceId}; every reference a run stages lies in its own
\* tree and in no other run's; a run renames a reference, or fails to
\* create one, only because of a reference that it staged itself.
C22_RunsStageInOwnTree ==
    /\ \A p, q \in Procs :
          (p # q /\ Started2(p) /\ Started2(q))
              => /\ runs.inst[p].dirs.workDir # runs.inst[q].dirs.workDir
                 /\ ~InTreeOf(runs.inst[p].dirs.inputsDir, q)
    /\ \A k \in DOMAIN runs.links :
          /\ InTreeOf(k.dir, runs.links[k].by)
          /\ k.dir = runs.inst[runs.links[k].by].dirs.inputsDir
          /\ \A q \in Procs \ {runs.links[k].by} : Started2(q) => ~InTreeOf(k.dir, q)
    /\ \A p \in Procs :
          \A n \in DOMAIN runs.inst[p].events :
              LET e == runs.inst[p].events[n]
              IN /\ e.existed => (e.pretty = <<>> \/ e.pretty \in OwnBefore(p, n))
                 /\ (e.local # <<>> /\ ~e.created) => e.local \in OwnBefore(p, n)

\* Both runs staged the same two URLs at the same time: each has its own
\* 'a' and its own renamed '2_a', all four referring to the shared cache.
C22_Witness ==
    /\ \A p \in Procs :
          /\ runs.inst[p].pc = "done"
          /\ Len(runs.inst[p].events) = 2
          /\ runs.inst[p].events[2].existed
          /\ runs.inst[p].events[2].local = <<"2", "_", "a">>
    /\ Cardinality(DOMAIN runs.links) = 4
    /\ runs.inst[1].dirs.cacheDir = runs.inst[2].dirs.cacheDir


(***************************************************************************)
(* Claims about the life of one instance                                   *)
(***************************************************************************)
\* a resolution or materialization step failed among the first n events
FailedWithin(n) ==
    \E k \in 1..n : ~wf.log[k].ok /\ wf.log[k].step # "ExecuteWorkflow"

\* C28: executeWorkflow hands a workflow to the engine only when the
\* workflow and the inputs of the instance are materialized and no
\* resolution or materialization step of the instance failed before.
C28_NoExecutionUnlessAllStepsSucceeded ==
    \A n \in DOMAIN wf.handoffs :
        /\ wf.handoffs[n].materializedEngine = "workflow"
        /\ wf.handoffs[n].materializedParams # None
        /\ ~FailedWithin(wf.handoffs[n].at)

\* what is certain: nothing is handed over without a materialized engine
C28_HandOffHasEngine ==
    \A n \in DOMAIN wf.handoffs :
        /\ wf.handoffs[n].materializedEngine # None
        /\ \E k \in 1..wf.handoffs[n].at : wf.log[k].step = "materializeEngine" /\ wf.log[k].ok

C28_FailingRun ==
    /\ Len(wf.handoffs) = 1
    /\ wf.handoffs[1].materializedEngine = "engine"
    /\ wf.handoffs[1].materializedParams = None
    /\ FailedWithin(wf.handoffs[1].at)

\* the place of a step in the sequence of one call
Rank(step) ==
    CASE step = "getWorkflowRepoFromTRS" -> 1
      [] step = "doMaterializeRepo" -> 2
      [] step = "identify engine" -> 3
      [] step \in {"try engines in order", "ask pinned engine"} -> 4
      [] step = "fetchWorkflow" -> 5
      [] step = "materializeEngine" -> 6
      [] step = "MaterializeWorkflow" -> 7
      [] OTHER -> 8

\* an event of the given step that succeeded among the first n events
DoneWithin(step, n) == \E k \in 1..n : wf.log[k].step = step /\ wf.log[k].ok

\* an event of the given step before the n-th event, in the same call
SameCallBefore(step, n) ==
    \E k \in 1..(n - 1) : wf.log[k].step = step /\ wf.log[k].call = wf.log[n].call

EntryPoints == {"setupEngine", "materializeWorkflow"}

\* C29: within one call the steps happen in the order resolve, materialize
\* repository, identify engine, materialize engine, materialize workflow;
\* the repository is materialized after the resolution of a registry
\* identifier and the engine identified after the repository; the engine is
\* materialized only after a fetchWorkflow that succeeded, the workflow only
\* after the engine was; and setupEngine and materializeWorkflow never run
\* fetchWorkflow after one that succeeded.
C29_StepsInLifeOrder ==
    \A n \in DOMAIN wf.log :
        /\ \A k \in 1..(n - 1) :
              wf.log[k].call = wf.log[n].call => Rank(wf.log[k].step) < Rank(wf.log[n].step)
        /\ (wf.log[n].step = "doMaterializeRepo" /\ UrlParse(ask.id).scheme = <<>>)
              => SameCallBefore("getWorkflowRepoFromTRS", n)
        /\ wf.log[n].step = "identify engine" => SameCallBefore("doMaterializeRepo", n)
        /\ wf.log[n].step = "materializeEngine" => DoneWithin("fetchWorkflow", n - 1)
        /\ wf.log[n].step = "MaterializeWorkflow" => DoneWithin("materializeEngine", n - 1)
        /\ (wf.log[n].step = "fetchWorkflow" /\ wf.log[n].by \in EntryPoints)
              => ~DoneWithin("fetchWorkflow", n - 1)

\* A registry identifier: setupEngine fetched the workflow and materialized
\* the engine, a second setupEngine and then materializeWorkflow ran, and
\* fetchWorkflow ran once.
C29_Witness ==
    /\ UrlParse(ask.id).scheme = <<>>
    /\ wf.calls = 3
    /\ Len(wf.log) >= 3
    /\ \E n \in DOMAIN wf.log :
          wf.log[n] = Event(1, "setupEngine", "fetchWorkflow", TRUE)
    /\ \E n \in DOMAIN wf.log :
          wf.log[n] = Event(2, "setupEngine", "materializeEngine", TRUE)
    /\ wf.log[Len(wf.log)] = Event(3, "materializeWorkflow", "MaterializeWorkflow", TRUE)
    /\ Cardinality({n \in DOMAIN wf.log : wf.log[n].step = "fetchWorkflow"}) = 1


(***************************************************************************)
(* Claims about the three caches together                                  *)
(***************************************************************************)
\* every entry of the function f is an entry of g, with the same content
Kept(f, g) == \A k \in DOMAIN f : k \in DOMAIN g /\ g[k] = f[k]

\* the last call of doMaterializeRepo ran git clone
LastCloned ==
    \E n \in DOMAIN repoLog[Len(repoLog)].ops :
        repoLog[Len(repoLog)].ops[n] \in {"clone", "clone -n"}

InTrace(step, trace) == \E n \in DOMAIN trace : trace[n] = step

\* C31: in every call of doMaterializeRepo, downloadROcrate or
\* downloadInputFile by runs that execute one after another, every entry of
\* the repository cache, of the RO-Crate cache and of the input cache stays
\* with its content, and a clone or download is made only for an entry that
\* did not exist when the call began.
C31_CachesAppendOnly ==
    [][/\ Kept(wfCache.slots, wfCache'.slots)
       /\ wfCache.dirs \subseteq wfCache'.dirs
       /\ Kept(roCrateCache, roCrateCache')
       /\ Kept(inputCache, inputCache')
       /\ (repoLog' # repoLog /\ LastCloned')
             => RepoTagDestdir(repoLog'[Len(repoLog')].url, repoLog'[Len(repoLog')].tag)
                    \notin DOMAIN wfCache.slots
       /\ (fetchLog' # fetchLog /\ fetchLog'[1].handlerCalled)
             => CachedFilename(fetchLog'[1].uri) \notin DOMAIN inputCache
       /\ ((resolved' # resolved \/ ask' # ask) /\ InTrace("crate download", resolved'.trace))
             => Sha1(ask'.roCrateURL) \notin DOMAIN roCrateCache]_vars

\* Each cache holds two entries and the last call on each was a cache hit.
C31_Witness ==
    /\ Cardinality(DOMAIN wfCache.slots) = 2
    /\ Cardinality(DOMAIN roCrateCache) = 2
    /\ Cardinality(DOMAIN inputCache) = 2
    /\ Len(repoLog) = 2 /\ repoLog[2].ok /\ repoLog[2].ops = <<"rev-parse">>
    /\ Len(fetchLog) = 1 /\ fetchLog[1].ok /\ ~fetchLog[1].handlerCalled
    /\ resolved.trace # <<>> /\ ~InTrace("crate download", resolved.trace)


(***************************************************************************)
(* Claims about materializeContainers                                      *)
(***************************************************************************)
\* the commands run for entry n of tagList, as <<op, retval>> pairs
OpsOf(n) ==
    [k \in 1..Cardinality({j \in DOMAIN docker.ops : docker.ops[j].entry = n}) |->
        LET j == CHOOSE j \in DOMAIN docker.ops :
                     /\ docker.ops[j].entry = n
                     /\ Cardinality({i \in 1..j : docker.ops[i].entry = n}) = k
        IN <<docker.ops[j].op, docker.ops[j].retval>>]

\* the courses of the protocol, whole or in progress
Courses ==
    {<<>>, <<<<"inspect", 0>>>>, <<<<"inspect", 1>>>>,
     <<<<"inspect", 1>>, <<"pull", 1>>>>, <<<<"inspect", 1>>, <<"pull", 0>>>>,
     <<<<"inspect", 1>>, <<"pull", 0>>, <<"inspect", 0>>>>,
     <<<<"inspect", 1>>, <<"pull", 0>>, <<"inspect", 1>>>>}

\* the tag without its 'docker://' prefix
Unprefixed(tag) == IF Head(tag) = "docker://" THEN SubSeq(tag, 2, Len(tag)) ELSE tag

\* C32: for every entry of tagList the commands are an inspect, a pull only
\* after that inspect failed, and a second inspect only after the pull
\* succeeded (so at most one pull and two inspects), each on the tag without
\* its prefix; a call that returned has one Container per entry, in order,
\* with the prefix removed from the resolved tag and kept in the original,
\* and the last inspect of every entry succeeded; a call whose entry could
\* not be inspected raised and returned no list.
C32_InspectPullInspect ==
    /\ \A n \in DOMAIN docker.tagList : OpsOf(n) \in Courses
    /\ \A j \in DOMAIN docker.ops : docker.ops[j].tag = Unprefixed(docker.tagList[docker.ops[j].entry])
    /\ docker.pc = "returned"
          => /\ Len(docker.containersList) = Len(docker.tagList)
             /\ \A n \in DOMAIN docker.tagList :
                   /\ docker.containersList[n].origTaggedName = docker.tagList[n]
                   /\ docker.containersList[n].taggedName = Unprefixed(docker.tagList[n])
                   /\ OpsOf(n)[Len(OpsOf(n))] = <<"inspect", 0>>
    /\ (docker.ops # <<>> /\ docker.ops[Len(docker.ops)].retval # 0
           /\ docker.pc \notin {"pull", "idle"})
          => docker.pc = "raised"
    /\ docker.pc = "raised" => Len(docker.containersList) < Len(docker.tagList)

\* A call for 'docker://a' and 'b' returned after pulling both.
C32_Witness ==
    /\ docker.pc = "returned"
    /\ docker.tagList = <<<<"docker://", "a">>, <<"b">>>>
    /\ Len(docker.ops) = 6
    /\ docker.containersList[1].taggedName = <<"a">>
    /\ docker.containersList[1].origTaggedName = <<"docker://", "a">>


(***************************************************************************)
(* Claims about downloads that stop part-way                               *)
(***************************************************************************)
\* C33: every entry of the RO-Crate cache and of the input cache is the
\* whole content of its URL: a download that stopped part-way left no entry.
C33_EntryOnlyIfDownloadCompleted ==
    /\ \A k \in DOMAIN roCrateCache : roCrateCache[k] = "complete"
    /\ \A k \in DOMAIN inputCache : inputCache[k] = "complete"

\* The crate download stopped part-way, left its file, and the next call
\* for the URL took it as a cache hit and failed to open it.
C33_FailingRun ==
    /\ ask.kind = "ROCrate"
    /\ Sha1(ask.roCrateURL) \in DOMAIN roCrateCache
    /\ roCrateCache[Sha1(ask.roCrateURL)] = "partial"
    /\ ~InTrace("crate download", resolved.trace)
    /\ ~resolved.ok /\ resolved.err = "cannot open RO-Crate"


(***************************************************************************)
(* Claims about what a failed step leaves                                  *)
(***************************************************************************)
\* the events that the step added to the log
NewEvents == {wf'.log[n] : n \in (Len(wf.log) + 1)..Len(wf'.log)}

FailedIn(step) == \E e \in NewEvents : e.step = step /\ ~e.ok

\* C34: a call in which fetchWorkflow failed leaves repoDir,
\* repoEffectiveCheckout, engineDesc, engine, engineVer and localWorkflow as
\* they were; a setupEngine on an instance whose fetchWorkflow failed and
\* that has no engine runs fetchWorkflow again; a materializeInputs that
\* failed leaves materializedParams as it was.
C34_FailedStepKeepsResults ==
    [][/\ FailedIn("fetchWorkflow")
             => /\ wf'.f.repoDir = wf.f.repoDir
                /\ wf'.f.repoEffectiveCheckout = wf.f.repoEffectiveCheckout
                /\ wf'.f.engineDesc = wf.f.engineDesc
                /\ wf'.f.engineVer = wf.f.engineVer
                /\ wf'.engine = wf.engine
                /\ wf'.localWorkflow = wf.localWorkflow
                /\ wf'.materializedEngine = wf.materializedEngine
       /\ (wf.phase = "fetch failed" /\ wf.engine = None
              /\ \E e \in NewEvents : e.by = "setupEngine")
             => \E e \in NewEvents : e.step = "fetchWorkflow"
       /\ FailedIn("fetchInputs") => wf'.materializedParams = wf.materializedParams]_vars

\* materializeInputs succeeded and a later one failed: the inputs are kept.
C34_InputsKept ==
    /\ wf.materializedParams # None
    /\ wf.log # <<>>
    /\ wf.log[Len(wf.log)] = Event(wf.calls, "materializeInputs", "fetchInputs", FALSE)

\* fetchWorkflow succeeded, then failed, then materializeInputs failed, and
\* the instance has the engine and the repository of the first call.
C34_Witness ==
    /\ wf.calls = 3
    /\ \E m, n \in DOMAIN wf.log :
          /\ m < n /\ n < Len(wf.log)
          /\ wf.log[m].step = "fetchWorkflow" /\ wf.log[m].ok
          /\ wf.log[n].step = "fetchWorkflow" /\ ~wf.log[n].ok
    /\ wf.log[Len(wf.log)] = Event(3, "materializeInputs", "fetchInputs", FALSE)
    /\ wf.engine # None /\ wf.f.repoDir # NoneStr /\ wf.localWorkflow # NoLocalWorkflow
    /\ wf.materializedParams = None

\* setupEngine ran fetchWorkflow again after a fetchWorkflow that failed,
\* and after materializeInputs had succeeded a failing one kept the inputs.
C34_RetryWitness ==
    /\ \E m, n \in DOMAIN wf.log :
          /\ m < n
          /\ wf.log[m].step = "fetchWorkflow" /\ ~wf.log[m].ok
          /\ wf.log[n].step = "fetchWorkflow" /\ wf.log[n].by = "setupEngine" /\ wf.log[n].ok
    /\ wf.engine # None

====
